---------------------------- MODULE Spec2Model ----------------------------
(***************************************************************************)
(* EXIF metadata extraction (public/js/utils/exif-extractor.js, kept here  *)
(* as src/unnamed/part_002).                                               *)
(*                                                                         *)
(* A DataView is a sequence of bytes, byte i of the view being view[i+1]. *)
(* A JavaScript function that can throw is an operator returning a record *)
(* with a field "thrown"; a thrown read is a DataView RangeError.          *)
(* A JavaScript value is a tagged record: a number is an exact fraction    *)
(* n/d in lowest terms, a string a sequence of character codes, an array a *)
(* sequence of fractions.  A time value (milliseconds since the epoch) is  *)
(* the pair days, ms with 0 <= ms < 86400000, so that real dates fit the   *)
(* integers of the model checker.                                          *)
(***************************************************************************)
EXTENDS Integers, Sequences, FiniteSets, TLC

VARIABLES pc, file, parsed, outcome, tiff, decoded

vars == <<pc, file, parsed, outcome, tiff, decoded>>

(***************************************************************************)
(* Bytes, integers and DataView reads                                      *)
(***************************************************************************)
Byte == 0..255

\* the largest integer of the model: a 32-bit unsigned read beyond it stands
\* for "a count or offset beyond any buffer"
Huge == 127 * 16777216 + 16777215

SatAdd(a, b) == IF a > Huge - b THEN Huge ELSE a + b

RECURSIVE Gcd(_, _)
Gcd(a, b) == IF b = 0 THEN a ELSE Gcd(b, a % b)

Abs(x) == IF x < 0 THEN -x ELSE x

\* DataView bounds check of a read of n bytes at byte offset off
InView(view, off, n) == off >= 0 /\ off <= Len(view) - n

U8(view, off) == view[off + 1]

\* view.getUint16(off, littleEndian), for an offset in range
U16(view, off, littleEndian) ==
    IF littleEndian THEN U8(view, off) + 256 * U8(view, off + 1)
    ELSE 256 * U8(view, off) + U8(view, off + 1)

\* the four bytes of a 32-bit read, most significant first
Quad(view, off, littleEndian) ==
    IF littleEndian
    THEN <<U8(view, off + 3), U8(view, off + 2), U8(view, off + 1), U8(view, off)>>
    ELSE <<U8(view, off), U8(view, off + 1), U8(view, off + 2), U8(view, off + 3)>>

\* view.getUint32(off, littleEndian), for an offset in range
U32(view, off, littleEndian) ==
    LET q == Quad(view, off, littleEndian)
    IN  IF q[1] >= 128 THEN Huge
        ELSE q[1] * 16777216 + q[2] * 65536 + q[3] * 256 + q[4]

\* view.getInt32(off, littleEndian), for an offset in range
I32(view, off, littleEndian) ==
    LET q == Quad(view, off, littleEndian)
        hi == IF q[1] >= 128 THEN q[1] - 256 ELSE q[1]
    IN  hi * 16777216 + q[2] * 65536 + q[3] * 256 + q[4]

(***************************************************************************)
(* JavaScript values                                                       *)
(***************************************************************************)
Frac(n, d) ==
    LET g == Gcd(Abs(n), Abs(d))
        s == IF d < 0 THEN -1 ELSE 1
    IN  <<s * (n \div g), s * (d \div g)>>

NumV(n, d) == [k |-> "num", q |-> Frac(n, d), s |-> <<>>, a |-> <<>>]
IntV(n) == NumV(n, 1)
StrV(s) == [k |-> "str", q |-> <<0, 1>>, s |-> s, a |-> <<>>]
ArrV(a) == [k |-> "arr", q |-> <<0, 1>>, s |-> <<>>, a |-> a]
UndefV == [k |-> "undef", q |-> <<0, 1>>, s |-> <<>>, a |-> <<>>]
NaNV == [k |-> "nan", q |-> <<0, 1>>, s |-> <<>>, a |-> <<>>]
BoolV(b) == [k |-> "bool", q |-> <<IF b THEN 1 ELSE 0, 1>>, s |-> <<>>, a |-> <<>>]
\* a number that is a time value: q is <<days, ms>>
TimeV(t) == [k |-> "time", q |-> t, s |-> <<>>, a |-> <<>>]

\* ToBoolean
Truthy(v) ==
    CASE v.k = "str" -> v.s # <<>>
      [] v.k = "num" -> v.q[1] # 0
      [] v.k = "bool" -> v.q[1] = 1
      [] v.k = "time" -> v.q # <<0, 0>>
      [] v.k = "arr" -> TRUE
      [] OTHER -> FALSE

\* the character codes String.prototype.trim removes, among those a byte holds
WhiteSpace == {9, 10, 11, 12, 13, 32, 160}

RECURSIVE TrimLeft(_)
TrimLeft(s) ==
    IF s # <<>> /\ Head(s) \in WhiteSpace THEN TrimLeft(Tail(s)) ELSE s

RECURSIVE TrimRight(_)
TrimRight(s) ==
    IF s # <<>> /\ s[Len(s)] \in WhiteSpace
    THEN TrimRight(SubSeq(s, 1, Len(s) - 1)) ELSE s

Trim(s) == TrimRight(TrimLeft(s))

(***************************************************************************)
(* getStringFromView, part_002 lines 157-165                               *)
(***************************************************************************)
RECURSIVE ReadChars(_, _, _, _, _)
ReadChars(view, offset, length, i, result) ==
    IF i >= length THEN [thrown |-> FALSE, s |-> result]
    ELSE IF ~InView(view, offset + i, 1) THEN [thrown |-> TRUE, s |-> result]
    ELSE IF U8(view, offset + i) = 0 THEN [thrown |-> FALSE, s |-> result]
    ELSE ReadChars(view, offset, length, i + 1, Append(result, U8(view, offset + i)))

getStringFromView(view, offset, length) == ReadChars(view, offset, length, 0, <<>>)

(***************************************************************************)
(* readTagValue, part_002 lines 259-353                                    *)
(***************************************************************************)
SupportedTypes == {1, 2, 3, 4, 5, 7, 9, 10}

\* valueBytes of the switch, lines 267-318
valueBytes(dataType) ==
    CASE dataType \in {1, 2, 7} -> 1
      [] dataType = 3 -> 2
      [] dataType \in {4, 9} -> 4
      [] dataType \in {5, 10} -> 8

\* num / den of lines 297 and 313
\* num / den without the test for a zero denominator: Infinity or NaN,
\* written as a fraction over 0
QuotientUnguarded(num, den) == IF den = 0 THEN <<1, 0>> ELSE Frac(num, den)

Quotient(num, den) == IF den = 0 THEN <<0, 1>> ELSE Frac(num, den)

\* getValue(offset) of a non-ASCII type, for an offset in range
\* getValue with the SHORT read of line 286 left at the DataView default,
\* big-endian
getValueShortBig(view, dataType, offset, littleEndian) ==
    CASE dataType \in {1, 7} -> <<U8(view, offset), 1>>
      [] dataType = 3 -> <<U16(view, offset, FALSE), 1>>
      [] dataType = 4 -> <<U32(view, offset, littleEndian), 1>>
      [] dataType = 5 -> Quotient(U32(view, offset, littleEndian),
                                  U32(view, offset + 4, littleEndian))
      [] dataType = 9 -> <<I32(view, offset, littleEndian), 1>>
      [] dataType = 10 -> Quotient(I32(view, offset, littleEndian),
                                   I32(view, offset + 4, littleEndian))

getValue(view, dataType, offset, littleEndian) ==
    CASE dataType \in {1, 7} -> <<U8(view, offset), 1>>
      [] dataType = 3 -> <<U16(view, offset, littleEndian), 1>>
      [] dataType = 4 -> <<U32(view, offset, littleEndian), 1>>
      [] dataType = 5 -> Quotient(U32(view, offset, littleEndian),
                                  U32(view, offset + 4, littleEndian))
      [] dataType = 9 -> <<I32(view, offset, littleEndian), 1>>
      [] dataType = 10 -> Quotient(I32(view, offset, littleEndian),
                                   I32(view, offset + 4, littleEndian))

\* an ASCII reader that takes all length bytes, zero bytes included
getAsciiWhole(view, offset, length) ==
    IF InView(view, offset, length)
    THEN [thrown |-> FALSE, value |-> StrV(Trim(SubSeq(view, offset + 1, offset + length)))]
    ELSE [thrown |-> TRUE, value |-> UndefV]

\* getValue(offset, length) of ASCII, lines 274-282
getAscii(view, offset, length) ==
    LET r == getStringFromView(view, offset, length)
    IN  [thrown |-> r.thrown, value |-> StrV(Trim(r.s))]

\* lines 326-327 and 343-344: one value
readOne(view, dataType, offset, littleEndian) ==
    IF InView(view, offset, valueBytes(dataType))
    THEN [thrown |-> FALSE,
          value |-> [k |-> "num", q |-> getValue(view, dataType, offset, littleEndian),
                     s |-> <<>>, a |-> <<>>]]
    ELSE [thrown |-> TRUE, value |-> UndefV]

\* an array whose elements are all read at offset
readArrayUnmoved(view, dataType, numValues, offset, littleEndian, w) ==
    IF InView(view, offset, w)
    THEN [thrown |-> FALSE,
          value |-> ArrV([i \in 1..numValues |->
                         getValue(view, dataType, offset, littleEndian)])]
    ELSE [thrown |-> TRUE, value |-> UndefV]

\* lines 329-333 and 346-350: numValues values of w bytes each.  The reads
\* ascend from offset, so the first one out of range is thrown exactly when
\* the whole array does not fit the view.
readArray(view, dataType, numValues, offset, littleEndian, w) ==
    IF numValues = 0 THEN [thrown |-> FALSE, value |-> ArrV(<<>>)]
    ELSE IF offset >= 0 /\ offset <= Len(view) /\ numValues <= (Len(view) - offset) \div w
    THEN [thrown |-> FALSE,
          value |-> ArrV([i \in 1..numValues |->
                         getValue(view, dataType, offset + (i - 1) * w, littleEndian)])]
    ELSE [thrown |-> TRUE, value |-> UndefV]

\* lines 322-334 and 339-351: the value read at offset, inline or out of line
readAt(view, dataType, numValues, offset, littleEndian) ==
    IF dataType = 2 THEN getAscii(view, offset, numValues)
    ELSE IF numValues = 1 THEN readOne(view, dataType, offset, littleEndian)
    ELSE readArray(view, dataType, numValues, offset, littleEndian, valueBytes(dataType))

\* numValues * valueBytes <= 4, line 321 (a count above 4 is never inline)
\* numValues * valueBytes < 4: a value filling the field is taken for an offset
StoredInlineBelow4(dataType, numValues) ==
    numValues < 4 /\ numValues * valueBytes(dataType) < 4

StoredInline(dataType, numValues) ==
    numValues <= 4 /\ numValues * valueBytes(dataType) <= 4

\* readTagValue throwing for a type outside the switch
readTagValueRejecting(view, dataType, numValues, valueOffset, tiffStart, entryValueOffset, littleEndian) ==
    IF dataType \notin SupportedTypes THEN [thrown |-> TRUE, value |-> UndefV]
    ELSE readAt(view, dataType, numValues,
                IF StoredInline(dataType, numValues) THEN entryValueOffset
                ELSE SatAdd(tiffStart, valueOffset),
                littleEndian)

readTagValue(view, dataType, numValues, valueOffset, tiffStart, entryValueOffset, littleEndian) ==
    IF dataType \notin SupportedTypes THEN [thrown |-> FALSE, value |-> UndefV]
    ELSE readAt(view, dataType, numValues,
                IF StoredInline(dataType, numValues) THEN entryValueOffset
                ELSE SatAdd(tiffStart, valueOffset),
                littleEndian)

(***************************************************************************)
(* parseIfd, part_002 lines 217-245                                        *)
(***************************************************************************)
\* an assignment that would leave a tag already in the map as it is
PutEntryFirst(entries, e) ==
    [t \in DOMAIN entries \cup {e.id} |-> IF t \in DOMAIN entries THEN entries[t] ELSE e]

\* entries[tagId] = {...}, line 233
PutEntry(entries, e) ==
    [t \in DOMAIN entries \cup {e.id} |-> IF t = e.id THEN e ELSE entries[t]]

\* lines 231-241: the entry is stored unless reading its value threw
StoreEntry(entries, tagId, dataType, numValues, r) ==
    IF r.thrown THEN entries
    ELSE PutEntry(entries, [id |-> tagId, type |-> dataType, count |-> numValues,
                            value |-> r.value])

\* lines 225-241: one entry, its twelve bytes being in range
parseEntry(view, entryOffset, tiffStart, littleEndian, entries) ==
    StoreEntry(entries, U16(view, entryOffset, littleEndian),
               U16(view, entryOffset + 2, littleEndian),
               U32(view, entryOffset + 4, littleEndian),
               readTagValue(view, U16(view, entryOffset + 2, littleEndian),
                            U32(view, entryOffset + 4, littleEndian),
                            U32(view, entryOffset + 8, littleEndian),
                            tiffStart, entryOffset + 8, littleEndian))

\* the loop of lines 224-242; a header read of lines 226-229 out of range is
\* thrown out of parseIfd
RECURSIVE IfdLoop(_, _, _, _, _, _, _)
IfdLoop(view, ifdOffset, tiffStart, littleEndian, entryCount, i, entries) ==
    IF i >= entryCount THEN [thrown |-> FALSE, entries |-> entries]
    ELSE IF ~InView(view, ifdOffset + 2 + i * 12, 12)
    THEN [thrown |-> TRUE, entries |-> entries]
    ELSE IfdLoop(view, ifdOffset, tiffStart, littleEndian, entryCount, i + 1,
                 parseEntry(view, ifdOffset + 2 + i * 12, tiffStart, littleEndian, entries))

parseIfd(view, ifdOffset, tiffStart, littleEndian) ==
    IF ~InView(view, ifdOffset, 2) THEN [thrown |-> TRUE, entries |-> <<>>]
    ELSE IfdLoop(view, ifdOffset, tiffStart, littleEndian,
                 U16(view, ifdOffset, littleEndian), 0, <<>>)

(***************************************************************************)
(* parseTiffData, part_002 lines 174-206.  exifData is changed in place,   *)
(* so what was assigned before a throw stays assigned: the result holds    *)
(* the object as the throw (or the return) leaves it.                      *)
(***************************************************************************)
ExifIfdPointer == 34665
GpsIfdPointer == 34853
LittleEndianMark == 18761
TiffMagic == 42

\* tiffStart + entry.value as the DataView offset of lines 199 and 204: a
\* fraction is cut to its integer part by the DataView.  Entries whose value is
\* no number are outside the inputs of this model.
PointerTarget(tiffStart, value) ==
    LET n == value.q[1]
        d == value.q[2]
        sum == tiffStart * d + n
    IN  IF d = 1 THEN SatAdd(tiffStart, n)
        ELSE IF sum >= 0 THEN sum \div d ELSE -((-sum) \div d)

Thrown(exifData) == [thrown |-> TRUE, exifData |-> exifData]
Completed(exifData) == [thrown |-> FALSE, exifData |-> exifData]

\* lines 202-205, r being the GPS IFD as parsed
TiffGpsParsed(exifData, r) ==
    IF r.thrown THEN Thrown(exifData)
    ELSE Completed([exifData EXCEPT !.has = @ \cup {"gps"}, !.gps = r.entries])

TiffGps(view, tiffStart, littleEndian, exifData) ==
    IF GpsIfdPointer \in DOMAIN exifData.ifd0
    THEN TiffGpsParsed(exifData,
                       parseIfd(view, PointerTarget(tiffStart, exifData.ifd0[GpsIfdPointer].value),
                                tiffStart, littleEndian))
    ELSE Completed(exifData)

\* lines 197-200, r being the Exif IFD as parsed
TiffExifParsed(view, tiffStart, littleEndian, exifData, r) ==
    IF r.thrown THEN Thrown(exifData)
    ELSE TiffGps(view, tiffStart, littleEndian,
                 [exifData EXCEPT !.has = @ \cup {"exif"}, !.exif = r.entries])

TiffExif(view, tiffStart, littleEndian, exifData) ==
    IF ExifIfdPointer \in DOMAIN exifData.ifd0
    THEN TiffExifParsed(view, tiffStart, littleEndian, exifData,
                        parseIfd(view, PointerTarget(tiffStart, exifData.ifd0[ExifIfdPointer].value),
                                 tiffStart, littleEndian))
    ELSE TiffGps(view, tiffStart, littleEndian, exifData)

\* lines 192-194, r being IFD0 as parsed: exifData.ifd0 is {} when that threw
TiffIfd0Parsed(view, tiffStart, littleEndian, exifData, r) ==
    IF r.thrown THEN Thrown(exifData)
    ELSE TiffExif(view, tiffStart, littleEndian, [exifData EXCEPT !.ifd0 = r.entries])

\* lines 181-193
TiffBody(view, tiffStart, littleEndian, exifData) ==
    IF ~InView(view, tiffStart + 2, 2) THEN Thrown(exifData)
    ELSE IF U16(view, tiffStart + 2, littleEndian) # TiffMagic THEN Completed(exifData)
    ELSE IF ~InView(view, tiffStart + 4, 4) THEN Thrown(exifData)
    ELSE TiffIfd0Parsed(view, tiffStart, littleEndian,
                        [exifData EXCEPT !.has = @ \cup {"ifd0"}, !.ifd0 = <<>>],
                        parseIfd(view, SatAdd(tiffStart, U32(view, tiffStart + 4, littleEndian)),
                                 tiffStart, littleEndian))

\* lines 176-179
TiffOrder(view, tiffStart, littleEndian, exifData) ==
    TiffBody(view, tiffStart, littleEndian,
             [exifData EXCEPT !.byteOrder =
                 IF littleEndian THEN "little-endian" ELSE "big-endian"])

TiffHeader(view, tiffStart, exifData) ==
    IF ~InView(view, tiffStart, 2) THEN Thrown(exifData)
    ELSE TiffOrder(view, tiffStart, U16(view, tiffStart, FALSE) = LittleEndianMark, exifData)

parseTiffData(view, tiffStart, exifData) ==
    TiffHeader(view, tiffStart, [exifData EXCEPT !.tiffRuns = Append(@, tiffStart)])

(***************************************************************************)
(* parseExifData, part_002 lines 74-147                                    *)
(***************************************************************************)
MarkerPrefix == 255
SOI == 216
EOI == 217
RST0 == 208
APP1 == 225

\* "Exif\0\0" of line 122, as character codes
ExifIdentifier == <<69, 120, 105, 102, 0, 0>>

\* Number.prototype.toString(16).toUpperCase() of a byte, line 133
HexDigit(n) == IF n < 10 THEN 48 + n ELSE 55 + n

ToHexUpper(n) ==
    IF n < 16 THEN <<HexDigit(n)>> ELSE <<HexDigit(n \div 16), HexDigit(n % 16)>>

\* { _segments: [] } of line 75.  has: the IFD maps assigned so far.
\* app1Reached and tiffRuns are history: the offsets at which line 119 found
\* an APP1 marker, and the offsets parseTiffData was called with.
NewExifData ==
    [segments |-> <<>>, exifFound |-> FALSE, exifOffset |-> -1,
     byteOrder |-> "", has |-> {}, ifd0 |-> <<>>, exif |-> <<>>, gps |-> <<>>,
     parseError |-> FALSE, app1Reached |-> <<>>, tiffRuns |-> <<>>]

\* lines 121-122: the identifier test of an APP1 segment at offset
\* the check of line 121 accepting any six bytes that begin with "Exif"
ExifHeaderCheckPrefix(view, offset) ==
    LET exifHeader == getStringFromView(view, offset + 4, 6)
    IN  [thrown |-> exifHeader.thrown,
         found |-> /\ Len(exifHeader.s) >= 4
                   /\ SubSeq(exifHeader.s, 1, 4) = SubSeq(ExifIdentifier, 1, 4)]

ExifHeaderCheck(view, offset) ==
    LET exifHeader == getStringFromView(view, offset + 4, 6)
    IN  [thrown |-> exifHeader.thrown, found |-> exifHeader.s = ExifIdentifier]

\* the catch of lines 141-144
ParseFailed(exifData) == [exifData EXCEPT !.parseError = TRUE]

\* lines 122-128, hdr being the identifier test and exifData having the
\* segment in its history
scanApp1(view, offset, hdr, exifData) ==
    IF hdr.thrown THEN Thrown(exifData)
    ELSE IF ~hdr.found THEN Completed(exifData)
    ELSE parseTiffData(view, offset + 10,
                       [exifData EXCEPT !.exifFound = TRUE, !.exifOffset = offset + 10])

\* lines 118-129
scanSegment(view, offset, marker, exifData) ==
    IF marker # APP1 THEN Completed(exifData)
    ELSE scanApp1(view, offset, ExifHeaderCheck(view, offset),
                  [exifData EXCEPT !.app1Reached = Append(@, offset)])

\* lines 131-136, after a segment that did not throw
pushSegment(r, marker, offset, segmentSize) ==
    IF r.thrown THEN r
    ELSE Completed([r.exifData EXCEPT !.segments =
                       Append(@, [marker |-> ToHexUpper(marker), offset |-> offset,
                                  size |-> segmentSize])])

\* a scan that takes no marker for the end of the image
EndOfImageNever(marker) == FALSE

\* line 96: the marker at which the loop breaks
EndOfImage(marker) == marker = EOI

\* the loop of lines 87-140 inside the try of line 83: r is the object as the
\* iterations so far leave it, thrown when the last of them threw
RECURSIVE ScanLoop(_, _, _)
ScanLoop(view, offset, r) ==
    IF r.thrown THEN ParseFailed(r.exifData)
    ELSE IF ~(offset < Len(view) - 1) THEN r.exifData
    ELSE IF U8(view, offset) # MarkerPrefix THEN ScanLoop(view, offset + 1, r)
    ELSE IF EndOfImage(U8(view, offset + 1)) THEN r.exifData
    ELSE IF U8(view, offset + 1) \in RST0..EOI THEN ScanLoop(view, offset + 2, r)
    ELSE IF ~InView(view, offset + 2, 2) THEN ParseFailed(r.exifData)
    ELSE IF U16(view, offset + 2, FALSE) < 2 THEN ScanLoop(view, offset + 2, r)
    ELSE ScanLoop(view, offset + 2 + U16(view, offset + 2, FALSE),
                  pushSegment(scanSegment(view, offset, U8(view, offset + 1), r.exifData),
                              U8(view, offset + 1), offset, U16(view, offset + 2, FALSE)))

\* lines 78-146 on the object exifData.  thrown: the RangeError of line 79,
\* outside the try of line 83
ScanFrom(view, exifData) ==
    IF ~InView(view, 0, 1) THEN Thrown(exifData)
    ELSE IF U8(view, 0) # MarkerPrefix THEN Completed(exifData)
    ELSE IF ~InView(view, 1, 1) THEN Thrown(exifData)
    ELSE IF U8(view, 1) # SOI THEN Completed(exifData)
    ELSE Completed(ScanLoop(view, 2, Completed(exifData)))

\* one object kept between the calls: a call works on the object (last) the
\* call before it made
SharedExifData(last) == last

\* line 75: every call makes an object of its own
OwnExifData(last) == NewExifData

parseExifData(view) == ScanFrom(view, NewExifData)

(***************************************************************************)
(* Date: time values, new Date(y, m, d, h, mi, s), toISOString             *)
(***************************************************************************)
MsPerDay == 24 * 60 * 60 * 1000
MaxDay == 100 * 1000 * 1000

\* days since the epoch of day d of month m (1..12) of year y
DaysOfEra(era, yoe, doy) ==
    era * 146097 + yoe * 365 + (yoe \div 4) - (yoe \div 100) + doy - 719468

DaysOfYear(yy, mp, d) ==
    DaysOfEra(yy \div 400, yy % 400, ((153 * mp + 2) \div 5) + d - 1)

DaysFromCivil(y, m, d) ==
    DaysOfYear(IF m <= 2 THEN y - 1 ELSE y, IF m > 2 THEN m - 3 ELSE m + 9, d)

\* <<year, month, day>> of a day number
CivilOfMonth(y, mp, d) ==
    <<IF mp < 10 THEN y ELSE y + 1, IF mp < 10 THEN mp + 3 ELSE mp - 9, d>>

CivilOfDoy(y, doy, mp) == CivilOfMonth(y, mp, doy - ((153 * mp + 2) \div 5) + 1)

CivilOfYoe(era, doe, yoe) ==
    CivilOfDoy(yoe + era * 400,
               doe - (365 * yoe + (yoe \div 4) - (yoe \div 100)),
               (5 * (doe - (365 * yoe + (yoe \div 4) - (yoe \div 100))) + 2) \div 153)

CivilOfDoe(era, doe) ==
    CivilOfYoe(era, doe,
               (doe - (doe \div 1460) + (doe \div 36524) - (doe \div 146096)) \div 365)

CivilFromDays(days) ==
    CivilOfDoe((days + 719468) \div 146097, (days + 719468) % 146097)

\* a time value from a day number and milliseconds within or beyond the day
MakeDate(day, time) == <<day + (time \div MsPerDay), time % MsPerDay>>

\* TimeClip: the time values a Date can hold
ValidTime(t) ==
    /\ t[1] >= -MaxDay
    /\ t[1] <= MaxDay
    /\ (t[1] = MaxDay => t[2] = 0)

RECURSIVE Pad(_, _)
Pad(n, w) == IF w = 0 THEN <<>> ELSE Append(Pad(n \div 10, w - 1), 48 + (n % 10))

IsoYear(y) ==
    IF y >= 0 /\ y <= 9999 THEN Pad(y, 4)
    ELSE IF y < 0 THEN <<45>> \o Pad(-y, 6)
    ELSE <<43>> \o Pad(y, 6)

IsoOf(c, ms) ==
    IsoYear(c[1]) \o <<45>> \o Pad(c[2], 2) \o <<45>> \o Pad(c[3], 2) \o <<84>>
    \o Pad(ms \div 3600000, 2) \o <<58>> \o Pad((ms \div 60000) % 60, 2)
    \o <<58>> \o Pad((ms \div 1000) % 60, 2) \o <<46>> \o Pad(ms % 1000, 3)
    \o <<90>>

\* Date.prototype.toISOString of a valid time value, as character codes
IsoString(t) == IsoOf(CivilFromDays(t[1]), t[2])

\* new Date(ms).toISOString(): a RangeError for an invalid time value
toISOString(t) ==
    IF ValidTime(t) THEN [thrown |-> FALSE, value |-> StrV(IsoString(t))]
    ELSE [thrown |-> TRUE, value |-> UndefV]

\* new Date(year, month, day, hour, minute, second) in a zone tz minutes east
\* of UTC, the arguments being the numbers the strings of line 379 convert to
LocalDate(year, month, day, hour, minute, second, tz) ==
    MakeDate(DaysFromCivil((IF year <= 99 THEN 1900 + year ELSE year) + (month \div 12),
                           (month % 12) + 1, 1) + day - 1,
             hour * 3600000 + minute * 60000 + second * 1000 - tz * 60000)

(***************************************************************************)
(* formatTagValue, part_002 lines 363-386                                  *)
(***************************************************************************)
DateTags == {306, 36867, 36868}

IsDigit(c) == c >= 48 /\ c <= 57

\* /^\d{4}:\d{2}:\d{2} \d{2}:\d{2}:\d{2}$/
MatchesDateTime(s) ==
    /\ Len(s) = 19
    /\ \A i \in 1..19 :
         CASE i \in {5, 8, 14, 17} -> s[i] = 58
           [] i = 11 -> s[i] = 32
           [] OTHER -> IsDigit(s[i])

RECURSIVE DigitsValue(_)
DigitsValue(s) ==
    IF s = <<>> THEN 0 ELSE 10 * DigitsValue(SubSeq(s, 1, Len(s) - 1)) + (s[Len(s)] - 48)

\* lines 374-380, s matching the pattern
FormatDateTime(s, tz) ==
    StrV(IsoString(LocalDate(DigitsValue(SubSeq(s, 1, 4)), DigitsValue(SubSeq(s, 6, 7)) - 1,
                             DigitsValue(SubSeq(s, 9, 10)), DigitsValue(SubSeq(s, 12, 13)),
                             DigitsValue(SubSeq(s, 15, 16)), DigitsValue(SubSeq(s, 18, 19)),
                             tz)))

formatTagValue(value, tagId, tz) ==
    IF value.k = "undef" THEN UndefV
    ELSE IF tagId \in DateTags /\ value.k = "str" /\ MatchesDateTime(value.s)
    THEN FormatDateTime(value.s, tz)
    ELSE value

(***************************************************************************)
(* processExifData, part_002 lines 394-504.  A metadata object is a        *)
(* function from its property names to their values.                       *)
(***************************************************************************)
Put(m, key, v) == [x \in DOMAIN m \cup {key} |-> IF x = key THEN v ELSE m[x]]

Has(m, key) == key \in DOMAIN m

\* error.message of a RangeError and of a TypeError (the text is the engine's)
RangeErrorMessage == <<82, 97, 110, 103, 101, 69, 114, 114, 111, 114>>
TypeErrorMessage == <<84, 121, 112, 101, 69, 114, 114, 111, 114>>

\* if (ifd[tag]) metadata.name = formatTagValue(ifd[tag].value, tag, ifd)
Field(m, ifd, tag, name, tz) ==
    IF tag \in DOMAIN ifd THEN Put(m, name, formatTagValue(ifd[tag].value, tag, tz)) ELSE m

Ifd0Fields ==
    <<[tag |-> 271, name |-> "make"], [tag |-> 272, name |-> "model"],
      [tag |-> 306, name |-> "dateModified"], [tag |-> 270, name |-> "imageDescription"],
      [tag |-> 33432, name |-> "copyright"]>>

ExifFields ==
    <<[tag |-> 33434, name |-> "exposureTime"], [tag |-> 33437, name |-> "fNumber"],
      [tag |-> 34855, name |-> "isoSpeedRatings"], [tag |-> 36867, name |-> "dateTimeOriginal"],
      [tag |-> 36868, name |-> "dateTimeDigitized"], [tag |-> 37380, name |-> "exposureBiasValue"],
      [tag |-> 37383, name |-> "meteringMode"], [tag |-> 37385, name |-> "flash"],
      [tag |-> 37386, name |-> "focalLength"]>>

RECURSIVE Fields(_, _, _, _, _)
Fields(m, ifd, table, i, tz) ==
    IF i > Len(table) THEN m
    ELSE Fields(Field(m, ifd, table[i].tag, table[i].name, tz), ifd, table, i + 1, tz)

\* metadata.name, undefined when the property is absent
Get(m, name) == IF Has(m, name) THEN m[name] ELSE UndefV

\* a || b || c of line 428
\* c || b || a: the dates taken in the opposite order
FirstTruthyReversed(a, b, c) == IF Truthy(c) THEN c ELSE IF Truthy(b) THEN b ELSE a

FirstTruthy(a, b, c) == IF Truthy(a) THEN a ELSE IF Truthy(b) THEN b ELSE c

\* fractions: sum, quotient by an integer, negation
FracAdd(x, y) == Frac(x[1] * y[2] + y[1] * x[2], x[2] * y[2])
FracOver(x, n) == Frac(x[1], x[2] * n)
FracNeg(x) == <<-x[1], x[2]>>

\* value[0] + value[1] / 60 (+ value[2] / 3600), lines 447-450
DmsDegrees(a) ==
    IF Len(a) >= 3
    THEN FracAdd(FracAdd(a[1], FracOver(a[2], 60)), FracOver(a[3], 3600))
    ELSE FracAdd(a[1], FracOver(a[2], 60))

\* if (ref === 'S') latitude = -latitude
\* the reference ignored: the value is never negated
SignedByNever(q, ref, negRef) == q

SignedBy(q, ref, negRef) ==
    IF ref.k = "str" /\ ref.s = <<negRef>> THEN FracNeg(q) ELSE q

\* lines 446-455 and 457-466: decimal degrees of a coordinate value, negated
\* when its reference is the one-letter string negRef; 0 for a value that is
\* neither an array of two or more nor a number
Degrees(value, ref, negRef) ==
    [k |-> "num",
     q |-> IF value.k = "arr" /\ Len(value.a) >= 2
           THEN SignedBy(DmsDegrees(value.a), ref, negRef)
           ELSE IF value.k = "num" THEN SignedBy(value.q, ref, negRef)
           ELSE <<0, 1>>,
     s |-> <<>>, a |-> <<>>]

AllDigits(s) == \A i \in 1..Len(s) : IsDigit(s[i])

\* -altitude of line 477.  A string converts to a number when it is empty or
\* all digits; the other numeric literals are outside the inputs of the model.
Negated(value) ==
    CASE value.k = "num" -> [value EXCEPT !.q = FracNeg(@)]
      [] value.k = "arr" /\ Len(value.a) = 0 -> IntV(0)
      [] value.k = "arr" /\ Len(value.a) = 1 ->
            [k |-> "num", q |-> FracNeg(value.a[1]), s |-> <<>>, a |-> <<>>]
      [] value.k = "str" /\ AllDigits(value.s) /\ Len(value.s) <= 9 ->
            IntV(-DigitsValue(value.s))
      [] OTHER -> NaNV

\* String.prototype.split(':')
RECURSIVE SplitColon(_, _, _)
SplitColon(s, i, part) ==
    IF i > Len(s) THEN <<part>>
    ELSE IF s[i] = 58 THEN <<part>> \o SplitColon(s, i + 1, <<>>)
    ELSE SplitColon(s, i + 1, Append(part, s[i]))

\* Number(part) of line 488: [ok, n]; not ok is NaN (as for Negated, only the
\* empty and the all-digit strings convert)
ToNumber(part) ==
    LET p == Trim(part)
    IN  IF AllDigits(p) /\ Len(p) <= 9 THEN [ok |-> TRUE, n |-> DigitsValue(p)]
        ELSE [ok |-> FALSE, n |-> 0]

\* the integer part of a fraction (ToIntegerOrInfinity)
Trunc(x) == IF x[1] >= 0 THEN x[1] \div x[2] ELSE -((-x[1]) \div x[2])

\* TimeClip of a date built from a year too far for any valid time value
Clipped(t, tooFar) ==
    IF tooFar THEN [ok |-> FALSE, t |-> <<0, 0>>] ELSE [ok |-> ValidTime(t), t |-> t]

\* MakeDay and MakeTime of integral arguments
UtcOf(ym, mn, day, h, mi, sec) ==
    Clipped(MakeDate(DaysFromCivil(ym, mn + 1, 1) + day - 1
                     + (h \div 24) + (mi \div 1440) + (sec \div 86400),
                     (h % 24) * 3600000 + (mi % 1440) * 60000 + (sec % 86400) * 1000),
            Abs(ym) > 300000 \/ Abs(day) > MaxDay)

\* Date.UTC(year, month, day, hours, minutes, seconds): [ok, t]; not ok is NaN
DateUTC(year, month, day, hours, minutes, seconds) ==
    UtcOf((IF year >= 0 /\ year <= 99 THEN 1900 + year ELSE year) + (month \div 12),
          month % 12, day, Trunc(hours), Trunc(minutes), Trunc(seconds))

\* lines 491-493: an invalid date has getTime() NaN and toISOString throws
\* into the catch of line 498
GpsStamp(m, d) ==
    IF d.ok
    THEN Put(Put(m, "gpsTimestamp", TimeV(d.t)), "gpsDateTime", StrV(IsoString(d.t)))
    ELSE Put(Put(m, "gpsTimestamp", NaNV), "processingError", StrV(RangeErrorMessage))

\* Date.UTC called with the month as the datestamp numbers it
GpsDateMonthKept(m, timeValue, year, month, day) ==
    GpsStamp(m, IF year.ok /\ month.ok /\ day.ok
                THEN DateUTC(year.n, month.n, day.n,
                             timeValue.a[1], timeValue.a[2], timeValue.a[3])
                ELSE [ok |-> FALSE, t |-> <<0, 0>>])

GpsDate(m, timeValue, year, month, day) ==
    GpsStamp(m, IF year.ok /\ month.ok /\ day.ok
                THEN DateUTC(year.n, month.n - 1, day.n,
                             timeValue.a[1], timeValue.a[2], timeValue.a[3])
                ELSE [ok |-> FALSE, t |-> <<0, 0>>])

\* parts[i] converted, undefined (NaN) beyond the parts
PartNumber(parts, i) ==
    IF i <= Len(parts) THEN ToNumber(parts[i]) ELSE [ok |-> FALSE, n |-> 0]

GpsSplit(m, timeValue, parts) ==
    GpsDate(m, timeValue, PartNumber(parts, 1), PartNumber(parts, 2), PartNumber(parts, 3))

\* lines 483-495
GpsTime(m, gps) ==
    IF ~(7 \in DOMAIN gps /\ 29 \in DOMAIN gps) THEN m
    ELSE IF ~(gps[7].value.k = "arr" /\ Len(gps[7].value.a) = 3 /\ Truthy(gps[29].value))
    THEN m
    \* dateStamp.split is not a function
    ELSE IF gps[29].value.k # "str" THEN Put(m, "processingError", StrV(TypeErrorMessage))
    ELSE GpsSplit(m, gps[7].value, SplitColon(gps[29].value.s, 1, <<>>))

\* an altitude negated for every reference other than 0
GpsAltitudeNonZero(m, gps) ==
    IF 6 \notin DOMAIN gps THEN m
    ELSE Put(m, "gpsAltitude",
             IF 5 \in DOMAIN gps /\ gps[5].value # IntV(0) THEN Negated(gps[6].value)
             ELSE gps[6].value)

\* lines 472-480
GpsAltitude(m, gps) ==
    IF 6 \notin DOMAIN gps THEN m
    ELSE Put(m, "gpsAltitude",
             IF 5 \in DOMAIN gps /\ gps[5].value = IntV(1) THEN Negated(gps[6].value)
             ELSE gps[6].value)

\* lines 437-469
GpsCoordinates(m, gps) ==
    Put(Put(m, "gpsLatitude", Degrees(gps[2].value, gps[1].value, 83)),
        "gpsLongitude", Degrees(gps[4].value, gps[3].value, 87))

\* altitude and time taken without the coordinate tags as well
GpsPositionLoose(m, gps) ==
    IF ~({1, 2, 3, 4} \subseteq DOMAIN gps) THEN GpsTime(GpsAltitude(m, gps), gps)
    ELSE GpsTime(GpsAltitude(GpsCoordinates(m, gps), gps), gps)

\* lines 435-496
GpsPosition(m, gps) ==
    IF ~({1, 2, 3, 4} \subseteq DOMAIN gps) THEN m
    ELSE GpsTime(GpsAltitude(GpsCoordinates(m, gps), gps), gps)

\* lines 431-497
GpsFields(m, gps) ==
    IF DOMAIN gps = {} THEN m ELSE GpsPosition(Put(m, "hasGpsData", BoolV(TRUE)), gps)

\* line 428
DateCreated(m) ==
    Put(m, "dateCreated",
        FirstTruthy(Get(m, "dateTimeOriginal"), Get(m, "dateTimeDigitized"),
                    Get(m, "dateModified")))

\* tz: the local time zone of the Date objects, minutes east of UTC
processExifData(exifData, tz) ==
    IF ~exifData.exifFound THEN [x \in {"hasExif"} |-> BoolV(FALSE)]
    ELSE GpsFields(DateCreated(Fields(Fields([x \in {"hasExif"} |-> BoolV(TRUE)],
                                             exifData.ifd0, Ifd0Fields, 1, tz),
                                      exifData.exif, ExifFields, 1, tz)),
                   exifData.gps)

(***************************************************************************)
(* Input buffers: an encoder of TIFF blocks and JPEG segments, the inverse *)
(* of the parser by the EXIF layout, used to build the inputs.  A logical  *)
(* entry is [id, type, vals]: vals holds character codes or bytes (types   *)
(* 1, 2, 7), integers (3, 4, 9) or numerator-denominator pairs (5, 10).    *)
(***************************************************************************)
Enc16(v, littleEndian) ==
    IF littleEndian THEN <<v % 256, (v \div 256) % 256>>
    ELSE <<(v \div 256) % 256, v % 256>>

Enc32(v, littleEndian) ==
    LET b0 == v % 256
        b1 == (v \div 256) % 256
        b2 == (v \div 65536) % 256
        b3 == (v \div 16777216) % 256
    IN  IF littleEndian THEN <<b0, b1, b2, b3>> ELSE <<b3, b2, b1, b0>>

EncOne(type, v, littleEndian) ==
    CASE type \in {1, 2, 7} -> <<v>>
      [] type = 3 -> Enc16(v, littleEndian)
      [] type \in {4, 9} -> Enc32(v, littleEndian)
      [] type \in {5, 10} -> Enc32(v[1], littleEndian) \o Enc32(v[2], littleEndian)
      [] OTHER -> <<>>

RECURSIVE EncVals(_, _, _, _)
EncVals(type, vals, i, littleEndian) ==
    IF i > Len(vals) THEN <<>>
    ELSE EncOne(type, vals[i], littleEndian) \o EncVals(type, vals, i + 1, littleEndian)

PadTo4(bytes) == bytes \o [i \in 1..(4 - Len(bytes)) |-> 0]

\* the directory and the data area of an IFD placed at ifdStart (an offset
\* from the TIFF header): out-of-line values follow the directory in order
RECURSIVE EncEntries(_, _, _, _, _, _)
EncEntries(entries, i, dataStart, littleEndian, dir, data) ==
    IF i > Len(entries) THEN [dir |-> dir, data |-> data]
    ELSE
      LET e == entries[i]
          bytes == EncVals(e.type, e.vals, 1, littleEndian)
          head == Enc16(e.id, littleEndian) \o Enc16(e.type, littleEndian)
                  \o Enc32(Len(e.vals), littleEndian)
      IN  IF Len(bytes) <= 4
          THEN EncEntries(entries, i + 1, dataStart, littleEndian,
                          dir \o head \o PadTo4(bytes), data)
          ELSE EncEntries(entries, i + 1, dataStart, littleEndian,
                          dir \o head \o Enc32(dataStart + Len(data), littleEndian),
                          data \o bytes)

IfdBytes(entries, littleEndian, r) ==
    Enc16(Len(entries), littleEndian) \o r.dir \o <<0, 0, 0, 0>> \o r.data

EncodeIfd(entries, ifdStart, littleEndian) ==
    IfdBytes(entries, littleEndian,
             EncEntries(entries, 1, ifdStart + 2 + 12 * Len(entries) + 4, littleEndian,
                        <<>>, <<>>))

IfdSize(entries) == Len(EncodeIfd(entries, 0, TRUE))

LongEntry(tag, v) == [id |-> tag, type |-> 4, vals |-> <<v>>]

\* IFD0 with the pointers to the sub-IFDs that are not empty
WithPointers(ifd0, exif, gps, exifAt, gpsAt) ==
    ifd0 \o (IF exif # <<>> THEN <<LongEntry(ExifIfdPointer, exifAt)>> ELSE <<>>)
         \o (IF gps # <<>> THEN <<LongEntry(GpsIfdPointer, gpsAt)>> ELSE <<>>)

TiffLayout(littleEndian, ifd0, exif, gps, exifAt, gpsAt) ==
    (IF littleEndian THEN <<73, 73>> ELSE <<77, 77>>)
    \o Enc16(TiffMagic, littleEndian) \o Enc32(8, littleEndian)
    \o EncodeIfd(WithPointers(ifd0, exif, gps, exifAt, gpsAt), 8, littleEndian)
    \o (IF exif # <<>> THEN EncodeIfd(exif, exifAt, littleEndian) ELSE <<>>)
    \o (IF gps # <<>> THEN EncodeIfd(gps, gpsAt, littleEndian) ELSE <<>>)

TiffPlaced(littleEndian, ifd0, exif, gps, exifAt) ==
    TiffLayout(littleEndian, ifd0, exif, gps, exifAt,
               exifAt + (IF exif # <<>> THEN IfdSize(exif) ELSE 0))

\* a TIFF block: header, IFD0, Exif sub-IFD, GPS sub-IFD
EncodeTiff(littleEndian, ifd0, exif, gps) ==
    TiffPlaced(littleEndian, ifd0, exif, gps,
               8 + IfdSize(ifd0) + (IF exif # <<>> THEN 12 ELSE 0)
                 + (IF gps # <<>> THEN 12 ELSE 0))

\* a JPEG segment: marker, big-endian length (the payload and its own two
\* bytes), payload
Segment(marker, payload) ==
    <<MarkerPrefix, marker>> \o Enc16(Len(payload) + 2, FALSE) \o payload

App1Exif(tiffBlock) == Segment(APP1, ExifIdentifier \o tiffBlock)

Jpeg(body) == <<MarkerPrefix, SOI>> \o body

Prefixes(buf) == {SubSeq(buf, 1, n) : n \in 0..Len(buf)}

\* logical entries of the inputs
MakeAcme4 == [id |-> 271, type |-> 2, vals |-> <<65, 99, 109, 101>>]
MakeAcme5 == [id |-> 271, type |-> 2, vals |-> <<65, 99, 109, 101, 0>>]
ModelX1 == [id |-> 272, type |-> 2, vals |-> <<88, 49, 0>>]
ModelLong == [id |-> 272, type |-> 2, vals |-> <<82, 111, 99, 107, 101, 116, 32, 57, 0>>]
DateModified == [id |-> 306, type |-> 2, vals |-> <<50, 48, 50, 52, 58, 48, 50, 58, 48, 49, 32, 48, 56, 58, 48, 48, 58, 48, 48, 0>>]
XResolution == [id |-> 282, type |-> 5, vals |-> <<<<72, 1>>>>]
DateOriginal == [id |-> 36867, type |-> 2, vals |-> <<50, 48, 50, 52, 58, 48, 49, 58, 49, 53, 32, 49, 48, 58, 51, 48, 58, 48, 48, 0>>]
DateBlank == [id |-> 36867, type |-> 2, vals |-> <<32, 0>>]
DateDigitized == [id |-> 36868, type |-> 2, vals |-> <<50, 48, 50, 51, 58, 49, 50, 58, 51, 49, 32, 50, 51, 58, 53, 57, 58, 53, 57, 0>>]
ExposureTime == [id |-> 33434, type |-> 5, vals |-> <<<<1, 250>>>>]
IsoSpeed == [id |-> 34855, type |-> 3, vals |-> <<400>>]
ExposureBias == [id |-> 37380, type |-> 10, vals |-> <<<<-2, 3>>>>]
SubjectArea == [id |-> 37396, type |-> 3, vals |-> <<300, 7>>]
PixelX == [id |-> 40962, type |-> 9, vals |-> <<-70000>>]
GpsLatRef == [id |-> 1, type |-> 2, vals |-> <<83, 0>>]
GpsLat == [id |-> 2, type |-> 5, vals |-> <<<<40, 1>>, <<26, 1>>, <<46, 1>>>>]
GpsLatRefN == [id |-> 1, type |-> 2, vals |-> <<78, 0>>]
GpsLonRefE == [id |-> 3, type |-> 2, vals |-> <<69, 0>>]
GpsLatDecimal == [id |-> 2, type |-> 5, vals |-> <<<<81, 2>>>>]
GpsLonDecimal == [id |-> 4, type |-> 5, vals |-> <<<<317, 4>>>>]
GpsLonRef == [id |-> 3, type |-> 2, vals |-> <<87, 0>>]
GpsLon == [id |-> 4, type |-> 5, vals |-> <<<<79, 1>>, <<58, 1>>, <<561, 10>>>>]
GpsAltRef == [id |-> 5, type |-> 1, vals |-> <<1>>]
GpsAlt == [id |-> 6, type |-> 5, vals |-> <<<<1234, 10>>>>]
GpsTimeStamp == [id |-> 7, type |-> 5, vals |-> <<<<10, 1>>, <<30, 1>>, <<15, 1>>>>]
GpsDateStamp == [id |-> 29, type |-> 2, vals |-> <<50, 48, 50, 52, 58, 48, 49, 58, 49, 53, 0>>]

\* 10:30:15.5 and a date written with dashes
GpsTimeHalf == [id |-> 7, type |-> 5, vals |-> <<<<10, 1>>, <<30, 1>>, <<31, 2>>>>]
GpsDateDashed == [id |-> 29, type |-> 2, vals |-> <<50, 48, 50, 52, 45, 48, 49, 45, 49, 53, 0>>]

\* altitude references 0 and 2, and an altitude stored as a signed rational
GpsAltRef0 == [id |-> 5, type |-> 1, vals |-> <<0>>]
GpsAltRef2 == [id |-> 5, type |-> 1, vals |-> <<2>>]
GpsAltSigned == [id |-> 6, type |-> 10, vals |-> <<<<-5, 2>>>>]

Ifd0Choices ==
    {<<>>, <<MakeAcme4>>, <<MakeAcme5>>, <<MakeAcme5, ModelX1>>,
     <<ModelLong, XResolution, DateModified>>, <<MakeAcme4, ModelLong>>}

ExifChoices ==
    {<<>>, <<DateOriginal>>, <<DateDigitized, IsoSpeed>>,
     <<ExposureTime, IsoSpeed, DateOriginal, ExposureBias>>, <<SubjectArea, PixelX>>,
     <<DateOriginal, DateDigitized>>, <<DateBlank, DateDigitized>>, <<DateBlank>>}

GpsChoices ==
    {<<>>, <<GpsLatRef, GpsLat>>, <<GpsLatRef, GpsLat, GpsLonRef, GpsLon>>,
     <<GpsLatRef, GpsLat, GpsLonRef, GpsLon, GpsAltRef, GpsAlt, GpsTimeStamp, GpsDateStamp>>,
     <<GpsLatRefN, GpsLat, GpsLonRefE, GpsLon>>,
     <<GpsLatRef, GpsLatDecimal, GpsLonRefE, GpsLonDecimal>>,
     <<GpsLatRefN, GpsLatDecimal, GpsLonRef, GpsLonDecimal>>,
     <<GpsTimeStamp, GpsDateStamp>>,
     <<GpsLatRef, GpsLat, GpsAltRef, GpsAlt, GpsTimeStamp, GpsDateStamp>>,
     <<GpsLatRefN, GpsLat, GpsLonRefE, GpsLon, GpsDateStamp, GpsTimeHalf>>,
     <<GpsLatRefN, GpsLat, GpsLonRefE, GpsLon, GpsTimeStamp, GpsDateDashed>>,
     <<GpsLatRefN, GpsLat, GpsLonRefE, GpsLon, GpsTimeStamp>>,
     <<GpsLatRefN, GpsLat, GpsLonRefE, GpsLon, GpsAltRef0, GpsAlt>>,
     <<GpsLatRef, GpsLat, GpsLonRef, GpsLon, GpsAlt>>,
     <<GpsLatRef, GpsLat, GpsLonRef, GpsLon, GpsAltRef2, GpsAlt, GpsTimeStamp>>,
     <<GpsLatRefN, GpsLatDecimal, GpsLonRefE, GpsLonDecimal, GpsAltRef, GpsAltSigned>>,
     <<GpsLatRef, GpsLatDecimal, GpsLonRef, GpsLonDecimal, GpsAltSigned, GpsAltRef0>>}

\* local time zones, minutes east of UTC
TimeZones == {-300, 0, 120}

\* the offset of the TIFF header of an APP1 segment that follows the SOI marker
FirstTiffStart == 2 + 10

(***************************************************************************)
(* Files handed to extractExifMetadata                                     *)
(***************************************************************************)
MaxLen == 3

Alphabet == {0, MarkerPrefix, SOI, EOI, APP1}

RECURSIVE SeqsUpTo(_, _)
SeqsUpTo(S, n) ==
    IF n = 0 THEN {<<>>}
    ELSE LET shorter == SeqsUpTo(S, n - 1)
         IN  shorter \cup {Append(s, x) : s \in {q \in shorter : Len(q) = n - 1}, x \in S}

ShortBuffers == SeqsUpTo(Alphabet, MaxLen)

AcmeTiff(littleEndian) == EncodeTiff(littleEndian, <<MakeAcme4>>, <<>>, <<>>)

App0 == Segment(224, <<74, 70, 73, 70, 0, 1, 1>>)
Xmp == Segment(APP1, <<104, 116, 116, 112, 58, 47, 47, 110, 115, 46, 97, 100, 111, 98, 101, 46, 99, 111, 109, 47, 120, 97, 112, 47, 49, 46, 48, 47, 0, 60, 120, 47, 62>>)
ExifLike == Segment(APP1, <<69, 120, 105, 102, 88, 89>> \o AcmeTiff(TRUE))
Eoi == <<MarkerPrefix, EOI>>

RoundTripTiff(littleEndian) ==
    EncodeTiff(littleEndian, <<MakeAcme5, ModelX1>>, <<DateOriginal>>, <<>>)

\* SOI, one APP1/Exif segment, a little-endian TIFF header, make = "Acme"
MinimalAcme == {Jpeg(App1Exif(AcmeTiff(TRUE))),
                Jpeg(App1Exif(EncodeTiff(TRUE, <<MakeAcme5>>, <<>>, <<>>)))}

RoundTripBuffers ==
    {Jpeg(App1Exif(RoundTripTiff(le)) \o Eoi) : le \in BOOLEAN}
    \cup {Jpeg(App0 \o App1Exif(RoundTripTiff(le)) \o Eoi) : le \in BOOLEAN}

\* SOI, a segment header whose length field is 0 or 1, then an APP1/Exif
\* segment and the end-of-image marker
ShortLengthBuffers ==
    {Jpeg(<<MarkerPrefix, 224, 0, n>> \o App1Exif(AcmeTiff(le)) \o Eoi) :
        n \in {0, 1}, le \in BOOLEAN}

\* what comes before the first end-of-image marker the scan reaches, and
\* the APP1/Exif segment that comes only after it
BeforeEoi == {<<>>, App0, App0 \o Xmp, <<0, MarkerPrefix, RST0>>}
AfterEoi ==
    {App1Exif(AcmeTiff(le)) : le \in BOOLEAN}
    \cup {App1Exif(AcmeTiff(TRUE)) \o Eoi, App0 \o App1Exif(RoundTripTiff(FALSE))}

EoiThenExif == {Jpeg(b \o Eoi \o a) : b \in BeforeEoi, a \in AfterEoi}

CraftedBuffers ==
    MinimalAcme \cup RoundTripBuffers
    \cup {Jpeg(App0 \o Eoi), Jpeg(App0), Jpeg(Xmp \o Eoi), Jpeg(ExifLike \o Eoi),
          Jpeg(App0 \o Xmp \o App0 \o Eoi),
          Jpeg(<<MarkerPrefix, 224, 0, 1>> \o App1Exif(AcmeTiff(FALSE)) \o Eoi),
          Jpeg(Eoi \o App1Exif(AcmeTiff(TRUE))),
          Jpeg(<<MarkerPrefix, RST0, 7>> \o App1Exif(AcmeTiff(TRUE)) \o Eoi),
          <<137, 80, 78, 71, 13, 10, 26, 10>>}
    \cup Prefixes(Jpeg(App0 \o App1Exif(AcmeTiff(TRUE)) \o Eoi))
    \cup ShortLengthBuffers \cup EoiThenExif

Buffers == ShortBuffers \cup CraftedBuffers

ImagePrefix == <<105, 109, 97, 103, 101, 47>>

FileTypes == {<<105, 109, 97, 103, 101, 47, 106, 112, 101, 103>>, <<105, 109, 97, 103, 101, 47, 112, 110, 103>>, <<118, 105, 100, 101, 111, 47, 109, 112, 52>>, <<>>}

\* file.lastModified: the epoch, one millisecond before and after it, and
\* 2024-01-15T10:30:00Z
Timestamps == {<<0, 0>>, <<0, 1>>, <<-1, 86399999>>, <<19737, 37800000>>}

Files == [type : FileTypes, bytes : Buffers, lastModified : Timestamps]

\* String.prototype.startsWith
startsWith(s, prefix) ==
    Len(s) >= Len(prefix) /\ SubSeq(s, 1, Len(prefix)) = prefix

(***************************************************************************)
(* extractExifMetadata, part_002 lines 12-51.  The call suspends once, at  *)
(* the await of line 23, until the FileReader loads the file or fails.     *)
(* outcome: what the caller gets, a returned object or a rejected promise. *)
(***************************************************************************)
\* parsed: parseExifData(arrayBuffer) of line 26, once it ran
NotParsed == [ran |-> FALSE, thrown |-> FALSE, exifData |-> NewExifData]
Ran(r) == [ran |-> TRUE, thrown |-> r.thrown, exifData |-> r.exifData]

NoOutcome == [kind |-> "none", metadata |-> <<>>]
Returned(m) == [kind |-> "returned", metadata |-> m]
Rejected == [kind |-> "rejected", metadata |-> <<>>]

\* { [extractionError,] originalTimestamp, dateCreated } of lines 15-18 and
\* 45-49, iso being new Date(file.lastModified).toISOString(), which may
\* throw out of the call
MinimalWith(f, m, iso) ==
    IF iso.thrown THEN Rejected
    ELSE Returned(Put(Put(m, "originalTimestamp", TimeV(f.lastModified)),
                      "dateCreated", iso.value))

Minimal(f, m) == MinimalWith(f, m, toISOString(f.lastModified))

\* the catch of lines 42-50
Catch(f, message) == Minimal(f, [x \in {"extractionError"} |-> message])

\* line 36
FallbackDate(f, metadata, iso) ==
    IF iso.thrown THEN Catch(f, StrV(RangeErrorMessage))
    ELSE Returned(Put(metadata, "dateCreated", iso.value))

\* lines 35-41
Fallback(f, metadata) ==
    IF ~Truthy(Get(metadata, "dateCreated")) /\ Truthy(TimeV(f.lastModified))
    THEN FallbackDate(f, metadata, toISOString(f.lastModified))
    ELSE Returned(metadata)

\* lines 29-32, r being parseExifData(arrayBuffer)
\* lines 26-32 without the try of line 21: the exception leaves the call
ProcessedUncaught(f, r, tz) ==
    IF r.thrown THEN Rejected
    ELSE Fallback(f, Put(processExifData(r.exifData, tz),
                         "originalTimestamp", TimeV(f.lastModified)))

Processed(f, r, tz) ==
    IF r.thrown THEN Catch(f, StrV(RangeErrorMessage))
    ELSE Fallback(f, Put(processExifData(r.exifData, tz),
                         "originalTimestamp", TimeV(f.lastModified)))

\* lines 26-41, once the buffer is read
Extracted(f, tz) == Processed(f, parseExifData(f.bytes), tz)

\* lines 12-23: a file that is no image returns at once, an image is read
Call ==
    /\ pc = "start"
    /\ IF ~startsWith(file.type, ImagePrefix)
       THEN /\ outcome' = Minimal(file, <<>>)
            /\ pc' = "done"
       ELSE /\ outcome' = outcome
            /\ pc' = "reading"
    /\ UNCHANGED <<file, parsed, tiff, decoded>>

\* reader.onload, line 62, and the rest of the try block
ReadLoaded ==
    /\ pc = "reading"
    /\ \E tz \in TimeZones :
         /\ outcome' = Extracted(file, tz)
         /\ parsed' = Ran(parseExifData(file.bytes))
    /\ pc' = "done"
    /\ UNCHANGED <<file, tiff, decoded>>

\* reader.onerror, line 63: the rejection is caught at line 42; the event it
\* is rejected with has no message
ReadFailed ==
    /\ pc = "reading"
    /\ outcome' = Catch(file, UndefV)
    /\ pc' = "done"
    /\ UNCHANGED <<file, parsed, tiff, decoded>>

NoTiff == [ifd0 |-> <<>>, exif |-> <<>>, gps |-> <<>>, tz |-> 0]
NoDecoded == [le |-> NewExifData, be |-> NewExifData, leThrown |-> FALSE,
              beThrown |-> FALSE, leMetadata |-> <<>>, beMetadata |-> <<>>]

Init ==
    /\ pc = "start"
    /\ file \in Files
    /\ parsed = NotParsed
    /\ outcome = NoOutcome
    /\ tiff = NoTiff
    /\ decoded = NoDecoded

Next == Call \/ ReadLoaded \/ ReadFailed

Spec == Init /\ [][Next]_vars

(***************************************************************************)
(* parseTiffData and processExifData on their own: the call of line 127    *)
(* for the APP1 segment that follows the SOI marker, on the little-endian  *)
(* and on the big-endian encoding of the same logical entries, then the    *)
(* call of line 29 on each result.                                         *)
(***************************************************************************)
\* IFD0 with a GPS pointer to the four zero bytes that end it: a GPS sub-IFD
\* of no entries
EmptyGpsIfd0 == <<MakeAcme4, LongEntry(GpsIfdPointer, 8 + 2 + 12 * 2)>>

TiffInputs ==
    [ifd0 : Ifd0Choices, exif : ExifChoices, gps : GpsChoices, tz : TimeZones]
    \cup [ifd0 : {EmptyGpsIfd0}, exif : {<<>>}, gps : {<<>>}, tz : TimeZones]

TiffView(littleEndian, tf) == Jpeg(App1Exif(EncodeTiff(littleEndian, tf.ifd0, tf.exif, tf.gps)))

\* exifData as lines 123-124 leave it for that segment
FoundAtFirst ==
    [NewExifData EXCEPT !.exifFound = TRUE, !.exifOffset = FirstTiffStart,
                        !.app1Reached = <<2>>]

NoFile == [type |-> <<>>, bytes |-> <<>>, lastModified |-> <<0, 0>>]

BothParsed(l, b) ==
    [le |-> l.exifData, be |-> b.exifData, leThrown |-> l.thrown, beThrown |-> b.thrown,
     leMetadata |-> <<>>, beMetadata |-> <<>>]

ParseTiff ==
    /\ pc = "tiff"
    /\ decoded' = BothParsed(parseTiffData(TiffView(TRUE, tiff), FirstTiffStart, FoundAtFirst),
                             parseTiffData(TiffView(FALSE, tiff), FirstTiffStart, FoundAtFirst))
    /\ pc' = "parsed"
    /\ UNCHANGED <<file, parsed, outcome, tiff>>

FormatTiff ==
    /\ pc = "parsed"
    /\ decoded' = [decoded EXCEPT !.leMetadata = processExifData(decoded.le, tiff.tz),
                                  !.beMetadata = processExifData(decoded.be, tiff.tz)]
    /\ pc' = "formatted"
    /\ UNCHANGED <<file, parsed, outcome, tiff>>

InitTiff ==
    /\ pc = "tiff"
    /\ file = NoFile
    /\ parsed = NotParsed
    /\ outcome = NoOutcome
    /\ tiff \in TiffInputs
    /\ decoded = NoDecoded

NextTiff == ParseTiff \/ FormatTiff

SpecTiff == InitTiff /\ [][NextTiff]_vars

(***************************************************************************)
(* extractExifMetadata from line 26 on for a buffer holding SOI and one    *)
(* APP1 segment, the identifier test of line 122 taken as passed: the      *)
(* scan of that segment with its call of parseTiffData, the catch of line  *)
(* 141, then lines 29-41.  The TIFF block has its order marker or its      *)
(* identifier bytes overwritten, or the buffer is cut short.               *)
(***************************************************************************)
OrderMarks == {<<73, 73>>, <<77, 77>>, <<0, 0>>, <<73, 77>>, <<42, 0>>}
MagicBytes == {<<42, 0>>, <<0, 42>>, <<0, 0>>, <<0, 43>>}

OrderMarkOf(littleEndian) == IF littleEndian THEN <<73, 73>> ELSE <<77, 77>>

DamagedBases ==
    {[ifd0 |-> <<MakeAcme4, ModelLong>>, exif |-> <<DateOriginal>>, gps |-> <<>>],
     [ifd0 |-> <<MakeAcme5>>, exif |-> <<>>, gps |-> <<GpsLatRef, GpsLat, GpsLonRef, GpsLon>>],
     [ifd0 |-> <<MakeAcme4>>, exif |-> <<IsoSpeed>>, gps |-> <<GpsLatRef, GpsLat>>]}

Damaged(b, littleEndian, marker, magic, drop) ==
    [ifd0 |-> b.ifd0, exif |-> b.exif, gps |-> b.gps, tz |-> 0, le |-> littleEndian,
     marker |-> marker, magic |-> magic, drop |-> drop]

\* the header bytes overwritten, nothing cut
HeaderDamaged ==
    {Damaged(b, le, mk, mg, 0) :
        b \in DamagedBases, le \in BOOLEAN, mk \in OrderMarks, mg \in MagicBytes}

\* a valid block with its last drop bytes missing
Truncated ==
    UNION {{Damaged(b, le, OrderMarkOf(le), Enc16(TiffMagic, le), n) :
               n \in 1..Len(EncodeTiff(le, b.ifd0, b.exif, b.gps))} :
           b \in DamagedBases, le \in BOOLEAN}

DamagedInputs == HeaderDamaged \cup Truncated

From(s, n) == SubSeq(s, n, Len(s))
DropLast(s, n) == SubSeq(s, 1, Len(s) - n)

DamagedView(tf) ==
    DropLast(Jpeg(App1Exif(tf.marker \o tf.magic
                           \o From(EncodeTiff(tf.le, tf.ifd0, tf.exif, tf.gps), 5))),
             tf.drop)

\* lines 111-139 for the APP1 segment at offset 2 with the test of line 122
\* passed, then the rest of the loop
ScanRecognised(view) ==
    ScanLoop(view, 2 + 2 + U16(view, 4, FALSE),
             pushSegment(scanApp1(view, 2, [thrown |-> FALSE, found |-> TRUE],
                                  [NewExifData EXCEPT !.app1Reached = <<2>>]),
                         APP1, 2, U16(view, 4, FALSE)))

ScanDamaged ==
    /\ pc = "found"
    /\ parsed' = Ran(Completed(ScanRecognised(DamagedView(tiff))))
    /\ pc' = "scanned"
    /\ UNCHANGED <<file, outcome, tiff, decoded>>

ReportDamaged ==
    /\ pc = "scanned"
    /\ outcome' = Processed(file, parsed, tiff.tz)
    /\ pc' = "reported"
    /\ UNCHANGED <<file, parsed, tiff, decoded>>

InitDamaged ==
    /\ pc = "found"
    /\ file = NoFile
    /\ parsed = NotParsed
    /\ outcome = NoOutcome
    /\ tiff \in DamagedInputs
    /\ decoded = NoDecoded

NextDamaged == ScanDamaged \/ ReportDamaged

SpecDamaged == InitDamaged /\ [][NextDamaged]_vars

(***************************************************************************)
(* parseIfd on its own: one IFD of raw directory entries behind a data     *)
(* area, in a TIFF block at FirstTiffStart.  A raw entry is [id, type,     *)
(* count, at, vals, valid, expect]: at is the offset stored in the value   *)
(* field (from the TIFF header), or -1 when the field holds vals           *)
(* themselves; expect is the value the layout gives the entry.             *)
(***************************************************************************)
MaxEntries == 3

\* offsets, from the TIFF header, of the pieces of the data area and of the IFD
AsciiAt == 2 + 2 + 4
PairAt == AsciiAt + 8
LongsAt == PairAt + 8
ShortsAt == LongsAt + 8
IfdAt == ShortsAt + 8
PastEnd == 60 * 1000

DefaultPair == <<1, 2>>
NumeratorParts == {0, 1, 3, 250, -1, -6}
DenominatorParts == {0, 1, 2, 4, -1, -3}

DataArea(littleEndian, pair) ==
    <<65, 99, 109, 101, 0, 0, 0, 0>>
    \o Enc32(pair[1], littleEndian) \o Enc32(pair[2], littleEndian)
    \o Enc32(7, littleEndian) \o Enc32(70000, littleEndian)
    \o Enc16(300, littleEndian) \o Enc16(7, littleEndian)
    \o Enc16(65535, littleEndian) \o Enc16(0, littleEndian)

Raw(id, type, count, at, vals, valid, expect) ==
    [id |-> id, type |-> type, count |-> count, at |-> at, vals |-> vals,
     valid |-> valid, expect |-> expect]

AsciiInline4 == Raw(271, 2, 4, -1, <<65, 99, 109, 101>>, TRUE, StrV(<<65, 99, 109, 101>>))
AsciiOffset5 == Raw(272, 2, 5, AsciiAt, <<>>, TRUE, StrV(<<65, 99, 109, 101>>))
LongInline8 == Raw(256, 4, 1, -1, <<AsciiAt>>, TRUE, IntV(AsciiAt))
ShortsInline == Raw(257, 3, 2, -1, <<300, 7>>, TRUE, ArrV(<<<<300, 1>>, <<7, 1>>>>))
LongsOffset == Raw(258, 4, 2, LongsAt, <<>>, TRUE, ArrV(<<<<7, 1>>, <<70000, 1>>>>))
RationalOffset == Raw(33434, 5, 1, PairAt, <<>>, TRUE, NumV(1, 2))
SRationalOffset == Raw(37380, 10, 1, PairAt, <<>>, TRUE, NumV(1, 2))
LongsPastEnd == Raw(305, 4, 2, PastEnd, <<>>, FALSE, UndefV)
ShortsTooMany == Raw(306, 3, 70000, LongsAt, <<>>, FALSE, UndefV)
SByteFar == Raw(259, 6, 1000, PastEnd, <<>>, TRUE, UndefV)
TypeZero == Raw(260, 0, 0, -1, <<>>, TRUE, UndefV)
FloatOffset == Raw(261, 11, 1, AsciiAt, <<>>, TRUE, UndefV)

\* ASCII entries: a zero byte inside the count, bytes in the field beyond the
\* count, white space around the characters, no zero byte within the count
AsciiZeroInside == Raw(800, 2, 4, -1, <<65, 0, 99, 109>>, TRUE, StrV(<<65>>))
AsciiCount2 == Raw(801, 2, 2, -1, <<65, 99, 109, 101>>, TRUE, StrV(<<65, 99>>))
AsciiSpaced == Raw(802, 2, 4, -1, <<32, 65, 9, 0>>, TRUE, StrV(<<65>>))
AsciiInnerSpace == Raw(803, 2, 4, -1, <<160, 66, 32, 67>>, TRUE, StrV(<<66, 32, 67>>))
AsciiZeroFirst == Raw(804, 2, 3, -1, <<0, 65, 66>>, TRUE, StrV(<<>>))
AsciiOffset3 == Raw(805, 2, 5, AsciiAt + 1, <<>>, TRUE, StrV(<<99, 109, 101>>))
AsciiOffset12 == Raw(806, 2, 12, AsciiAt, <<>>, TRUE, StrV(<<65, 99, 109, 101>>))
AsciiOffsetZeros == Raw(807, 2, 6, AsciiAt + 4, <<>>, TRUE, StrV(<<>>))

AsciiEntries ==
    {AsciiZeroInside, AsciiCount2, AsciiSpaced, AsciiInnerSpace, AsciiZeroFirst,
     AsciiOffset3, AsciiOffset12, AsciiOffsetZeros, AsciiInline4,
     AsciiOffset5}

\* entries of the other types, with one value and with several, in the value
\* field and in the data area
ByteInline1 == Raw(900, 1, 1, -1, <<200>>, TRUE, IntV(200))
BytesInline3 == Raw(901, 1, 3, -1, <<1, 2, 3>>, TRUE, ArrV(<<<<1, 1>>, <<2, 1>>, <<3, 1>>>>))
BytesOffset5 ==
    Raw(902, 1, 5, AsciiAt, <<>>, TRUE,
        ArrV(<<<<65, 1>>, <<99, 1>>, <<109, 1>>, <<101, 1>>, <<0, 1>>>>))
UndefinedInline4 ==
    Raw(903, 7, 4, -1, <<48, 50, 51, 48>>, TRUE,
        ArrV(<<<<48, 1>>, <<50, 1>>, <<51, 1>>, <<48, 1>>>>))
ShortInline1 == Raw(904, 3, 1, -1, <<400>>, TRUE, IntV(400))
ShortsOffset3 ==
    Raw(905, 3, 3, ShortsAt, <<>>, TRUE, ArrV(<<<<300, 1>>, <<7, 1>>, <<65535, 1>>>>))
SLongInline1 == Raw(906, 9, 1, -1, <<-70000>>, TRUE, IntV(-70000))
SLongsOffset2 == Raw(907, 9, 2, LongsAt, <<>>, TRUE, ArrV(<<<<7, 1>>, <<70000, 1>>>>))
RationalsOffset2 == Raw(908, 5, 2, PairAt, <<>>, TRUE, ArrV(<<<<1, 2>>, <<1, 10000>>>>))
SRationalsOffset2 == Raw(909, 10, 2, PairAt, <<>>, TRUE, ArrV(<<<<1, 2>>, <<1, 10000>>>>))

ArrayEntries ==
    {ByteInline1, BytesInline3, BytesOffset5, UndefinedInline4, ShortInline1,
     ShortsOffset3, SLongInline1, SLongsOffset2, RationalsOffset2, SRationalsOffset2,
     ShortsInline, LongInline8, LongsOffset, RationalOffset, SRationalOffset}

RawEntries ==
    {AsciiInline4, AsciiOffset5, LongInline8, ShortsInline, LongsOffset, RationalOffset,
     SRationalOffset, LongsPastEnd, ShortsTooMany, SByteFar, TypeZero, FloatOffset}

\* the sequences of up to n different entries
RECURSIVE DistinctSeqs(_, _)
DistinctSeqs(S, n) ==
    IF n = 0 THEN {<<>>}
    ELSE LET shorter == DistinctSeqs(S, n - 1)
         IN  shorter \cup UNION {{Append(s, x) : x \in S \ {s[i] : i \in 1..Len(s)}} :
                                     s \in {q \in shorter : Len(q) = n - 1}}

IfdInput(entries, littleEndian, pair) ==
    [entries |-> entries, le |-> littleEndian, pair |-> pair]

IfdInputs ==
    {IfdInput(es, le, DefaultPair) : es \in DistinctSeqs(RawEntries, MaxEntries), le \in BOOLEAN}
    \cup {IfdInput(<<RationalOffset, SRationalOffset>>, le, <<n, d>>) :
             le \in BOOLEAN, n \in NumeratorParts, d \in DenominatorParts}
    \cup {IfdInput(es, le, DefaultPair) : es \in DistinctSeqs(AsciiEntries, 2), le \in BOOLEAN}
    \cup {IfdInput(es, le, DefaultPair) : es \in DistinctSeqs(ArrayEntries, 2), le \in BOOLEAN}

RawEntryBytes(e, littleEndian) ==
    Enc16(e.id, littleEndian) \o Enc16(e.type, littleEndian) \o Enc32(e.count, littleEndian)
    \o (IF e.at < 0 THEN PadTo4(EncVals(e.type, e.vals, 1, littleEndian))
        ELSE Enc32(e.at, littleEndian))

RECURSIVE RawDirectory(_, _, _)
RawDirectory(entries, i, littleEndian) ==
    IF i > Len(entries) THEN <<>>
    ELSE RawEntryBytes(entries[i], littleEndian) \o RawDirectory(entries, i + 1, littleEndian)

IfdView(tf) ==
    Jpeg(App1Exif(OrderMarkOf(tf.le) \o Enc16(TiffMagic, tf.le) \o Enc32(IfdAt, tf.le)
                  \o DataArea(tf.le, tf.pair)
                  \o Enc16(Len(tf.entries), tf.le) \o RawDirectory(tf.entries, 1, tf.le)
                  \o <<0, 0, 0, 0>>))

WalkIfd ==
    /\ pc = "ifd"
    /\ decoded' = parseIfd(IfdView(tiff), FirstTiffStart + IfdAt, FirstTiffStart, tiff.le)
    /\ pc' = "walked"
    /\ UNCHANGED <<file, parsed, outcome, tiff>>

InitIfd ==
    /\ pc = "ifd"
    /\ file = NoFile
    /\ parsed = NotParsed
    /\ outcome = NoOutcome
    /\ tiff \in IfdInputs
    /\ decoded = NoDecoded

NextIfd == WalkIfd

SpecIfd == InitIfd /\ [][NextIfd]_vars

(***************************************************************************)
(* Several calls of extractExifMetadata, one per upload, on the one        *)
(* thread of the page: a call runs to its await of line 23 and, when its   *)
(* FileReader has loaded or failed, from there to its return; the calls    *)
(* interleave at the await.  pc, file, parsed and outcome hold one         *)
(* component per call; decoded is the exifData object made last.           *)
(***************************************************************************)
MaxCalls == 2

Calls == 1..MaxCalls

ConcurrentFiles ==
    [type : {<<105, 109, 97, 103, 101, 47, 106, 112, 101, 103>>,
             <<118, 105, 100, 101, 111, 47, 109, 112, 52>>},
     bytes : {<<>>, Jpeg(App0 \o Eoi), Jpeg(App0 \o Xmp \o App0 \o Eoi),
              <<MarkerPrefix, SOI, MarkerPrefix, 224>>},
     lastModified : {<<19737, 37800000>>}]

CallOf(i) ==
    /\ pc[i] = "start"
    /\ IF ~startsWith(file[i].type, ImagePrefix)
       THEN /\ outcome' = [outcome EXCEPT ![i] = Minimal(file[i], <<>>)]
            /\ pc' = [pc EXCEPT ![i] = "done"]
       ELSE /\ outcome' = outcome
            /\ pc' = [pc EXCEPT ![i] = "reading"]
    /\ UNCHANGED <<file, parsed, tiff, decoded>>

LoadedOf(i) ==
    /\ pc[i] = "reading"
    /\ parsed' = [parsed EXCEPT ![i] = Ran(ScanFrom(file[i].bytes, OwnExifData(decoded)))]
    /\ outcome' = [outcome EXCEPT ![i] = Processed(file[i], parsed'[i], tiff.tz)]
    /\ decoded' = parsed'[i].exifData
    /\ pc' = [pc EXCEPT ![i] = "done"]
    /\ UNCHANGED <<file, tiff>>

FailedOf(i) ==
    /\ pc[i] = "reading"
    /\ outcome' = [outcome EXCEPT ![i] = Catch(file[i], UndefV)]
    /\ pc' = [pc EXCEPT ![i] = "done"]
    /\ UNCHANGED <<file, parsed, tiff, decoded>>

InitConcurrent ==
    /\ pc = [i \in Calls |-> "start"]
    /\ file \in [Calls -> ConcurrentFiles]
    /\ parsed = [i \in Calls |-> NotParsed]
    /\ outcome = [i \in Calls |-> NoOutcome]
    /\ tiff = NoTiff
    /\ decoded = NewExifData

NextConcurrent == \E i \in Calls : CallOf(i) \/ LoadedOf(i) \/ FailedOf(i)

SpecConcurrent == InitConcurrent /\ [][NextConcurrent]_vars

(***************************************************************************)
(* Properties of extractExifMetadata                                       *)
(***************************************************************************)
\* the call has completed, having read and parsed the buffer
DoneParsed == pc = "done" /\ parsed.ran

StartsWithSOI(view) == Len(view) >= 2 /\ view[1] = MarkerPrefix /\ view[2] = SOI

\* the six bytes at s+4..s+9 are "Exif" and two zero bytes
ExifIdAt(view, s) == InView(view, s + 4, 6) /\ SubSeq(view, s + 5, s + 10) = ExifIdentifier

\* the offsets of the APP1 segments the scan reached that carry the identifier
ExifSegmentsMet ==
    {parsed.exifData.app1Reached[i] : i \in
        {n \in 1..Len(parsed.exifData.app1Reached) :
            ExifIdAt(file.bytes, parsed.exifData.app1Reached[n])}}

SeqRange(s) == {s[i] : i \in 1..Len(s)}

CameraGpsFields ==
    {"make", "model", "exposureTime", "fNumber", "isoSpeedRatings", "exposureBiasValue",
     "meteringMode", "flash", "focalLength", "gpsLatitude", "gpsLongitude", "gpsAltitude",
     "gpsTimestamp", "gpsDateTime", "hasGpsData"}

ExifDateFields == {"dateTimeOriginal", "dateTimeDigitized", "dateModified"}

Acme == <<65, 99, 109, 101>>

\* C1: for every buffer and every fallback timestamp the call completes by
\* returning a metadata object: no exception or rejection reaches the caller
C1_AlwaysReturns == pc = "done" => outcome.kind = "returned"

\* the empty buffer: the read of byte 0 throws and the call still returns
C1_Witness ==
    /\ DoneParsed
    /\ file.bytes = <<>>
    /\ parsed.thrown
    /\ outcome.kind = "returned"

\* C2: the minimal buffer (SOI, one APP1/Exif segment, little-endian TIFF
\* header, one IFD0 entry make = "Acme") yields a record with make "Acme"
C2_MinimalAcmeMake ==
    (DoneParsed /\ file.bytes \in MinimalAcme) =>
        /\ outcome.kind = "returned"
        /\ Has(outcome.metadata, "make")
        /\ outcome.metadata["make"] = StrV(Acme)

\* C3: an APP1 segment reached at s whose bytes s+4..s+9 are "Exif\0\0" is
\* recognised: the payload start s + 10 is recorded and the TIFF header
\* parser runs at that offset
C3_ExifSegmentRecognised ==
    DoneParsed =>
        \A s \in ExifSegmentsMet :
            /\ parsed.exifData.exifFound
            /\ parsed.exifData.exifOffset \in {x + 10 : x \in ExifSegmentsMet}
            /\ s + 10 \in SeqRange(parsed.exifData.tiffRuns)

\* C4: a buffer that fails the start-of-image check (shorter than two bytes
\* included) raises nothing and yields only hasExif = false and the fields of
\* the fallback timestamp, and no segment is scanned
C4_NotJpegFallbackOnly ==
    (DoneParsed /\ ~StartsWithSOI(file.bytes)) =>
        /\ outcome.kind = "returned"
        /\ DOMAIN outcome.metadata \subseteq {"hasExif", "originalTimestamp", "dateCreated"}
        /\ Has(outcome.metadata, "hasExif")
        /\ outcome.metadata["hasExif"] = BoolV(FALSE)
        /\ parsed.exifData.segments = <<>>
        /\ parsed.exifData.app1Reached = <<>>

\* C5: a buffer that starts with SOI and in which the scan meets no APP1
\* segment carrying "Exif\0\0" yields hasExif = false and no camera, exposure
\* or GPS field
C5_NoExifNoFields ==
    (DoneParsed /\ StartsWithSOI(file.bytes) /\ ExifSegmentsMet = {}) =>
        /\ outcome.kind = "returned"
        /\ Has(outcome.metadata, "hasExif")
        /\ outcome.metadata["hasExif"] = BoolV(FALSE)
        /\ DOMAIN outcome.metadata \cap CameraGpsFields = {}

\* an APP1 segment that is not Exif was reached, and one holding "ExifXY"
C5_Witness ==
    /\ DoneParsed
    /\ file.bytes = Jpeg(ExifLike \o Eoi)
    /\ parsed.exifData.app1Reached = <<2>>
    /\ ExifSegmentsMet = {}
    /\ outcome.kind = "returned"
    /\ outcome.metadata["hasExif"] = BoolV(FALSE)

\* C6: a buffer with SOI, an APP1/Exif segment, IFD0 with make, model and the
\* Exif sub-IFD pointer, and an Exif sub-IFD with dateTimeOriginal yields
\* the encoded make and model and the encoded date (as stored, or as the
\* formatter rewrites it in some time zone)
C6_RoundTrip ==
    (DoneParsed /\ file.bytes \in RoundTripBuffers) =>
        /\ outcome.kind = "returned"
        /\ {"make", "model", "dateTimeOriginal"} \subseteq DOMAIN outcome.metadata
        /\ outcome.metadata["make"] = StrV(Acme)
        /\ outcome.metadata["model"] = StrV(<<88, 49>>)
        /\ outcome.metadata["dateTimeOriginal"] \in
              {StrV(<<50, 48, 50, 52, 58, 48, 49, 58, 49, 53, 32, 49, 48, 58, 51, 48, 58, 48, 48>>)}
              \cup {formatTagValue(StrV(<<50, 48, 50, 52, 58, 48, 49, 58, 49, 53, 32, 49, 48, 58, 51, 48, 58, 48, 48>>), 36867, tz) : tz \in TimeZones}

IdsOf(entries) == {entries[i].id : i \in 1..Len(entries)}

\* C7: the same logical entries encoded little-endian ("II") and big-endian
\* ("MM") decode without error to the same IFD0, Exif and GPS maps, holding
\* every encoded tag, and to the same metadata record; each block is read in
\* the byte order of its own header
C7_ByteOrderEquivalence ==
    pc \in {"parsed", "formatted"} =>
        /\ ~decoded.leThrown /\ ~decoded.beThrown
        /\ decoded.le.byteOrder = "little-endian"
        /\ decoded.be.byteOrder = "big-endian"
        /\ decoded.le.has = decoded.be.has
        /\ decoded.le.ifd0 = decoded.be.ifd0
        /\ decoded.le.exif = decoded.be.exif
        /\ decoded.le.gps = decoded.be.gps
        /\ IdsOf(tiff.ifd0) \subseteq DOMAIN decoded.le.ifd0
        /\ DOMAIN decoded.le.exif = IdsOf(tiff.exif)
        /\ DOMAIN decoded.le.gps = IdsOf(tiff.gps)
        /\ decoded.leMetadata = decoded.beMetadata

\* both sub-IFDs decoded, with a SHORT, a RATIONAL and an SRATIONAL among them
C7_Witness ==
    /\ pc = "formatted"
    /\ tiff.exif = <<ExposureTime, IsoSpeed, DateOriginal, ExposureBias>>
    /\ Len(tiff.gps) = 8
    /\ decoded.le.exif[34855].value = IntV(400)
    /\ decoded.be.exif[37380].value = NumV(-2, 3)
    /\ Has(decoded.beMetadata, "gpsLatitude")
    /\ Has(decoded.leMetadata, "dateTimeOriginal")

\* C8: every returned record, on every return path, holds the hasExif flag
C8_AlwaysHasExifFlag ==
    (pc = "done" /\ outcome.kind = "returned") => Has(outcome.metadata, "hasExif")

\* a stage of the extraction threw: the start-of-image read, the segment scan
\* (with the TIFF header parser and the IFD walker under it) or the formatter
StageFailed ==
    \/ parsed.thrown
    \/ parsed.exifData.parseError
    \/ Has(outcome.metadata, "processingError")

\* C9: whenever a stage of the extraction fails with an exception, the
\* returned record carries extractionError and the fallback timestamp
C9_FailureReported ==
    (DoneParsed /\ StageFailed) =>
        /\ outcome.kind = "returned"
        /\ Has(outcome.metadata, "extractionError")
        /\ Has(outcome.metadata, "originalTimestamp")
        /\ outcome.metadata["originalTimestamp"] = TimeV(file.lastModified)

NoExifDate(m) == \A x \in ExifDateFields : ~Truthy(Get(m, x))

\* C10: every returned record has originalTimestamp equal to the fallback
\* timestamp and, when no EXIF date was derived, dateCreated set to it
C10_FallbackTimestamp ==
    (pc = "done" /\ outcome.kind = "returned") =>
        /\ Has(outcome.metadata, "originalTimestamp")
        /\ outcome.metadata["originalTimestamp"] = TimeV(file.lastModified)
        /\ NoExifDate(outcome.metadata) =>
              /\ Has(outcome.metadata, "dateCreated")
              /\ outcome.metadata["dateCreated"] = StrV(IsoString(file.lastModified))

(***************************************************************************)
(* Properties of processExifData and parseTiffData                         *)
(***************************************************************************)
\* the date the precedence original, digitized, modified selects among the
\* tags of an exifData, each counted when decoded(tag value) holds for it
DateByPrecedence(exifData, m, decodedOriginal, decodedDigitized) ==
    IF 36867 \in DOMAIN exifData.exif /\ decodedOriginal THEN m["dateTimeOriginal"]
    ELSE IF 36868 \in DOMAIN exifData.exif /\ decodedDigitized THEN m["dateTimeDigitized"]
    ELSE IF 306 \in DOMAIN exifData.ifd0 THEN m["dateModified"]
    ELSE UndefV

\* C11 as stated: dateCreated is dateTimeOriginal if tag 0x9003 was decoded,
\* otherwise dateTimeDigitized if tag 0x9004 was decoded, otherwise
\* dateModified if tag 0x0132 was decoded, otherwise empty
C11_DatePrecedenceDecoded ==
    pc = "formatted" =>
        /\ Has(decoded.leMetadata, "dateCreated")
        /\ decoded.leMetadata["dateCreated"] =
              DateByPrecedence(decoded.le, decoded.leMetadata, TRUE, TRUE)

\* C11: dateCreated is dateTimeOriginal if tag 0x9003 was decoded to a
\* non-empty value, otherwise dateTimeDigitized if tag 0x9004 was decoded to
\* a non-empty value, otherwise dateModified if tag 0x0132 was decoded,
\* otherwise empty
C11_DatePrecedence ==
    pc = "formatted" =>
        /\ Has(decoded.leMetadata, "dateCreated")
        /\ decoded.leMetadata["dateCreated"] =
              DateByPrecedence(decoded.le, decoded.leMetadata,
                               Truthy(Get(decoded.leMetadata, "dateTimeOriginal")),
                               Truthy(Get(decoded.leMetadata, "dateTimeDigitized")))

\* a blank original date next to a digitized date: the digitized date is taken
C11_Witness ==
    /\ pc = "formatted"
    /\ tiff.exif = <<DateBlank, DateDigitized>>
    /\ DateModified \in SeqRange(tiff.ifd0)
    /\ decoded.leMetadata["dateTimeOriginal"] = StrV(<<>>)
    /\ decoded.leMetadata["dateCreated"] = decoded.leMetadata["dateTimeDigitized"]
    /\ Truthy(decoded.leMetadata["dateCreated"])

\* the entry of tag id among the logical entries of an input
EntryOf(entries, id) == CHOOSE e \in SeqRange(entries) : e.id = id

\* degrees + minutes / 60 + seconds / 3600 of the coordinate values of the
\* inputs, and the decimal values as they are
DegreesOf(e) ==
    CASE e = GpsLat -> <<72803, 1800>>
      [] e = GpsLon -> <<319929, 4000>>
      [] e = GpsLatDecimal -> <<81, 2>>
      [] e = GpsLonDecimal -> <<317, 4>>

SignedDegrees(e, ref, negRef) ==
    IF ref.vals = <<negRef, 0>> THEN NumV(-DegreesOf(e)[1], DegreesOf(e)[2])
    ELSE NumV(DegreesOf(e)[1], DegreesOf(e)[2])

\* C17: a [degrees, minutes, seconds] latitude or longitude converts to
\* degrees + minutes / 60 + seconds / 3600, a single decimal value is taken
\* as it is, and the latitude is negated exactly when its reference is 'S',
\* the longitude exactly when its reference is 'W'
C17_GpsDegrees ==
    (pc = "formatted" /\ {1, 2, 3, 4} \subseteq IdsOf(tiff.gps)) =>
        /\ {"gpsLatitude", "gpsLongitude"} \subseteq DOMAIN decoded.leMetadata
        /\ decoded.leMetadata["gpsLatitude"] =
              SignedDegrees(EntryOf(tiff.gps, 2), EntryOf(tiff.gps, 1), 83)
        /\ decoded.leMetadata["gpsLongitude"] =
              SignedDegrees(EntryOf(tiff.gps, 4), EntryOf(tiff.gps, 3), 87)
        /\ decoded.beMetadata["gpsLatitude"] = decoded.leMetadata["gpsLatitude"]
        /\ decoded.beMetadata["gpsLongitude"] = decoded.leMetadata["gpsLongitude"]

\* [40, 26, 46] south is -40.446111 and a decimal 79.25 east stays positive
C17_Witness ==
    /\ pc = "formatted"
    /\ tiff.gps = <<GpsLatRef, GpsLatDecimal, GpsLonRefE, GpsLonDecimal>>
    /\ decoded.leMetadata["gpsLatitude"] = NumV(-81, 2)
    /\ decoded.leMetadata["gpsLongitude"] = NumV(317, 4)

\* the two bytes after the order marker, read in the order the marker selects
MagicRead(tf) ==
    IF tf.marker = OrderMarkOf(TRUE) THEN tf.magic[1] + 256 * tf.magic[2]
    ELSE tf.magic[2] + 256 * tf.magic[1]

DecodedBefore(tf, ifdAt) ==
    parseIfd(DamagedView(tf), FirstTiffStart + ifdAt, FirstTiffStart, tf.le).entries

\* where the encoder places the Exif sub-IFD
ExifIfdAt(tf) ==
    8 + IfdSize(tf.ifd0) + (IF tf.exif # <<>> THEN 12 ELSE 0)
      + (IF tf.gps # <<>> THEN 12 ELSE 0)

FieldsKept(table, entries, m) ==
    \A i \in 1..Len(table) : table[i].tag \in DOMAIN entries => Has(m, table[i].name)

Decoded(e, v) ==
    /\ e.id \in DOMAIN decoded.entries
    /\ decoded.entries[e.id].type = e.type
    /\ decoded.entries[e.id].count = e.count
    /\ decoded.entries[e.id].value = v

\* numerator / denominator, 0 for a zero denominator
Ratio(n, d) == IF d = 0 THEN IntV(0) ELSE NumV(n, d)

\* a pair stored with a part whose top bit is set: read unsigned, the part
\* is 2^31 or more, so the quotient is not negative, and 0 only for a zero
\* numerator or denominator
UnsignedRatio(v, n, d) ==
    /\ v.k = "num"
    /\ v.q[1] >= 0 /\ v.q[2] > 0
    /\ v.q[1] = 0 <=> (n = 0 \/ d = 0)

\* C14: RATIONAL and SRATIONAL decode to 0 for a zero denominator, whatever
\* the numerator, and to numerator / denominator otherwise, with no error;
\* the parts are read unsigned for type 5 and signed for type 10
C14_Rational ==
    (pc = "walked" /\ tiff.entries = <<RationalOffset, SRationalOffset>>) =>
        /\ ~decoded.thrown
        /\ Decoded(SRationalOffset, Ratio(tiff.pair[1], tiff.pair[2]))
        /\ (tiff.pair[1] >= 0 /\ tiff.pair[2] >= 0) =>
              Decoded(RationalOffset, Ratio(tiff.pair[1], tiff.pair[2]))
        /\ RationalOffset.id \in DOMAIN decoded.entries
        /\ UnsignedRatio(decoded.entries[RationalOffset.id].value, tiff.pair[1], tiff.pair[2])

\* the pair (-6, 0): 0 for both types
C14_Witness ==
    /\ pc = "walked"
    /\ tiff.pair = <<-6, 0>>
    /\ Decoded(RationalOffset, IntV(0))
    /\ Decoded(SRationalOffset, IntV(0))

\* the entries of the input that the layout gives a value: a supported type,
\* read from the value field when count * width <= 4 and from the TIFF
\* header + the stored offset otherwise
Readable(e) == e.valid /\ e.type \in SupportedTypes

\* C15: a value of count * width <= 4 is read from the entry's own value
\* field, any other from TIFF base + the offset held in that field; "Acme"
\* inline with count 4 and "Acme\0" out of line with count 5 decode to the
\* same string
C15_StorageRule ==
    (pc = "walked" /\ tiff.pair = DefaultPair) =>
        /\ ~decoded.thrown
        /\ \A i \in 1..Len(tiff.entries) :
              Readable(tiff.entries[i]) => Decoded(tiff.entries[i], tiff.entries[i].expect)
        /\ {AsciiInline4.id, AsciiOffset5.id} \subseteq DOMAIN decoded.entries =>
              decoded.entries[AsciiInline4.id].value = decoded.entries[AsciiOffset5.id].value

C15_Witness ==
    /\ pc = "walked"
    /\ tiff.entries = <<AsciiInline4, LongInline8, AsciiOffset5>>
    /\ decoded.entries[AsciiInline4.id].value = StrV(<<65, 99, 109, 101>>)
    /\ decoded.entries[AsciiOffset5.id].value = StrV(<<65, 99, 109, 101>>)
    /\ decoded.entries[LongInline8.id].value = IntV(AsciiAt)

\* C16: an entry of a type outside {1, 2, 3, 4, 5, 7, 9, 10} gets the value
\* undefined, whatever its count and offset, nothing is thrown, and the
\* other entries of the IFD are decoded
C16_UnsupportedType ==
    pc = "walked" =>
        /\ ~decoded.thrown
        /\ \A i \in 1..Len(tiff.entries) :
              /\ tiff.entries[i].type \notin SupportedTypes =>
                    Decoded(tiff.entries[i], UndefV)
              /\ (Readable(tiff.entries[i]) /\ tiff.entries[i].type \notin {5, 10}) =>
                    Decoded(tiff.entries[i], tiff.entries[i].expect)

\* type 6 with count 1000 and an offset past the end, between two good entries
C16_Witness ==
    /\ pc = "walked"
    /\ tiff.entries = <<ShortsInline, SByteFar, AsciiOffset5>>
    /\ Decoded(SByteFar, UndefV)
    /\ Decoded(ShortsInline, ShortsInline.expect)
    /\ Decoded(AsciiOffset5, AsciiOffset5.expect)

\* C18: an entry whose out-of-line offset or type is invalid is left out of
\* the IFD map, and every other entry, before and after it, is in the map
C18_TagFailureLocal ==
    pc = "walked" =>
        \A i \in 1..Len(tiff.entries) :
            IF Readable(tiff.entries[i])
            THEN tiff.entries[i].id \in DOMAIN decoded.entries
            ELSE tiff.entries[i].id \notin DOMAIN decoded.entries

\* where the value of entry i of the walked IFD begins: its own value field,
\* or the TIFF header + the offset it holds
ValueStart(tf, i) ==
    IF tf.entries[i].at < 0 THEN FirstTiffStart + IfdAt + 2 + 12 * (i - 1) + 8
    ELSE FirstTiffStart + tf.entries[i].at

\* the count bytes of the buffer from that place on
ValueBytes(tf, i) ==
    SubSeq(IfdView(tf), ValueStart(tf, i) + 1, ValueStart(tf, i) + tf.entries[i].count)

\* the bytes of s before its first zero byte, all of s when it has none
UpToZero(s) ==
    SubSeq(s, 1, CHOOSE n \in 0..Len(s) :
                     /\ \A i \in 1..n : s[i] # 0
                     /\ n = Len(s) \/ s[n + 1] = 0)

\* s from its first to its last character that is no white space
Stripped(s) ==
    LET inked == {i \in 1..Len(s) : s[i] \notin WhiteSpace}
    IN  IF inked = {} THEN <<>>
        ELSE SubSeq(s, CHOOSE i \in inked : \A j \in inked : i <= j,
                       CHOOSE i \in inked : \A j \in inked : i >= j)

\* C23: an ASCII value decodes to the characters from its first byte up to
\* the first zero byte, or to count characters when there is none within
\* count bytes, white space at both ends removed: no byte after the first
\* zero byte and none beyond count is part of the string
C23_AsciiValue ==
    pc = "walked" =>
        \A i \in 1..Len(tiff.entries) :
            (tiff.entries[i].type = 2 /\ tiff.entries[i].valid) =>
                Decoded(tiff.entries[i], StrV(Stripped(UpToZero(ValueBytes(tiff, i)))))

\* "A\0cm" inline gives "A", and the count of 12 bytes from "Acme\0..." on
\* gives "Acme"
C23_Witness ==
    /\ pc = "walked"
    /\ tiff.entries = <<AsciiZeroInside, AsciiOffset12>>
    /\ Decoded(AsciiZeroInside, StrV(<<65>>))
    /\ Decoded(AsciiOffset12, StrV(<<65, 99, 109, 101>>))

\* the width in bytes of one value of the types that are no text
WidthOf(type) ==
    CASE type \in {1, 7} -> 1
      [] type = 3 -> 2
      [] type \in {4, 9} -> 4
      [] type \in {5, 10} -> 8

\* the scalar at place n (from 0) of the value of entry i
ScalarAt(tf, i, n) ==
    getValue(IfdView(tf), tf.entries[i].type,
             ValueStart(tf, i) + n * WidthOf(tf.entries[i].type), tf.le)

\* C24: an entry of a supported type other than ASCII decodes, for a count
\* above 1, to the sequence of exactly count scalars in buffer order, element
\* n read at value start + n * width, and for count 1 to a single scalar,
\* in the value field and in the data area alike
C24_CountedValues ==
    (pc = "walked" /\ tiff.pair = DefaultPair) =>
        \A i \in 1..Len(tiff.entries) :
            (Readable(tiff.entries[i]) /\ tiff.entries[i].type # 2) =>
                /\ Decoded(tiff.entries[i], tiff.entries[i].expect)
                /\ tiff.entries[i].count = 1 =>
                      /\ decoded.entries[tiff.entries[i].id].value.k = "num"
                      /\ decoded.entries[tiff.entries[i].id].value.q = ScalarAt(tiff, i, 0)
                /\ tiff.entries[i].count > 1 =>
                      /\ decoded.entries[tiff.entries[i].id].value.k = "arr"
                      /\ Len(decoded.entries[tiff.entries[i].id].value.a) = tiff.entries[i].count
                      /\ \A n \in 1..tiff.entries[i].count :
                            decoded.entries[tiff.entries[i].id].value.a[n]
                                = ScalarAt(tiff, i, n - 1)

\* three shorts in the data area and three bytes in the value field
C24_Witness ==
    /\ pc = "walked"
    /\ tiff.entries = <<ShortsOffset3, BytesInline3>>
    /\ Decoded(ShortsOffset3, ArrV(<<<<300, 1>>, <<7, 1>>, <<65535, 1>>>>))
    /\ Decoded(BytesInline3, ArrV(<<<<1, 1>>, <<2, 1>>, <<3, 1>>>>))

(***************************************************************************)
(* Properties of concurrent calls                                          *)
(***************************************************************************)
\* what a call on file f returns when it runs alone, its read having loaded
\* the buffer or failed
Alone(f, loaded, tz) ==
    IF ~startsWith(f.type, ImagePrefix) THEN Minimal(f, <<>>)
    ELSE IF loaded THEN Extracted(f, tz)
    ELSE Catch(f, UndefV)

\* C19: calls interleaved in any order at their await each return the record
\* they return when run alone, and the scan state of each (segments, IFD
\* maps) is what its own buffer gives
C19_Independent ==
    \A i \in Calls :
        pc[i] = "done" =>
            /\ outcome[i] = Alone(file[i], parsed[i].ran, tiff.tz)
            /\ parsed[i].ran => parsed[i] = Ran(parseExifData(file[i].bytes))

\* two calls both done, each having scanned the segments of its own buffer,
\* call 1 resumed after call 2
C19_Witness ==
    /\ \A i \in Calls : pc[i] = "done" /\ parsed[i].ran
    /\ Len(parsed[1].exifData.segments) = 1
    /\ Len(parsed[2].exifData.segments) = 3
    /\ decoded = parsed[1].exifData

(***************************************************************************)
(* The segment scan                                                        *)
(***************************************************************************)
\* the scan went past the segment with the short length field at offset 2
\* and reached the APP1 marker that follows its four header bytes
ShortLengthPassed ==
    /\ ~parsed.thrown
    /\ ~parsed.exifData.parseError
    /\ 2 + 4 \in SeqRange(parsed.exifData.app1Reached)

\* C21: a segment whose length field is below 2 does not abort the scan: the
\* scan moves past it, and the APP1/Exif segment that follows it before the
\* end-of-image marker is found and parsed
C21_ShortLengthSkipped ==
    (DoneParsed /\ file.bytes \in ShortLengthBuffers) =>
        /\ ShortLengthPassed
        /\ parsed.exifData.exifFound
        /\ 2 + 4 + 10 \in SeqRange(parsed.exifData.tiffRuns)
        /\ Has(outcome.metadata, "make")

\* the buffer with everything after the end-of-image marker removed gives
\* the same object and the same record
SameAsCutAt(cut) ==
    /\ parsed = Ran(parseExifData(cut))
    /\ \E tz \in TimeZones : outcome = Extracted([file EXCEPT !.bytes = cut], tz)

\* C22: the scan stops at the first end-of-image marker it reaches: an
\* APP1/Exif segment that comes only after that marker is never reached or
\* parsed, and the returned record is the one of the buffer that ends with
\* the marker
C22_StopsAtEoi ==
    DoneParsed =>
        \A b \in BeforeEoi, a \in AfterEoi :
            file.bytes = Jpeg(b \o Eoi \o a) =>
                /\ \A s \in SeqRange(parsed.exifData.app1Reached) : s < Len(Jpeg(b))
                /\ \A i \in 1..Len(parsed.exifData.segments) :
                       parsed.exifData.segments[i].offset < Len(Jpeg(b))
                /\ parsed.exifData.tiffRuns = <<>>
                /\ SameAsCutAt(Jpeg(b \o Eoi))

\* an XMP segment was scanned, the end-of-image marker reached and the
\* APP1/Exif segment after it left alone
C22_Witness ==
    /\ DoneParsed
    /\ file.bytes = Jpeg(App0 \o Xmp \o Eoi \o App1Exif(AcmeTiff(TRUE)) \o Eoi)
    /\ Len(parsed.exifData.segments) = 2
    /\ parsed.exifData.app1Reached = <<2 + Len(App0)>>
    /\ outcome.kind = "returned"

(***************************************************************************)
(* Properties of the GPS fields                                            *)
(***************************************************************************)
\* the GPS sub-IFD of the input holds the tags ids
GpsHolds(ids) == ids \subseteq IdsOf(tiff.gps)

\* the record of either byte order has the field with the value v
BothHave(name, v) ==
    /\ Has(decoded.leMetadata, name) /\ decoded.leMetadata[name] = v
    /\ Has(decoded.beMetadata, name) /\ decoded.beMetadata[name] = v

BothLack(name) == ~Has(decoded.leMetadata, name) /\ ~Has(decoded.beMetadata, name)

\* 2024-01-15T10:30:15.000Z and 2024-01-15T10:30:15.500Z
Instant1030 == <<50, 48, 50, 52, 45, 48, 49, 45, 49, 53, 84, 49, 48, 58, 51, 48, 58, 49, 53, 46, 48, 48, 48, 90>>
Instant1030Half == <<50, 48, 50, 52, 45, 48, 49, 45, 49, 53, 84, 49, 48, 58, 51, 48, 58, 49, 53, 46, 53, 48, 48, 90>>

\* the UTC instant of the datestamp 2024:01:15 and the time of day of e
InstantOf(e) == IF e = GpsTimeHalf THEN Instant1030Half ELSE Instant1030

\* C25 as stated: whenever the GPS sub-IFD holds a timestamp of three values
\* and a datestamp, the record carries a gpsDateTime that is the UTC instant
\* of that date and that time of day
C25_GpsInstantAlways ==
    (pc = "formatted" /\ GpsHolds({7, 29}) /\ EntryOf(tiff.gps, 29) = GpsDateStamp) =>
        BothHave("gpsDateTime", StrV(InstantOf(EntryOf(tiff.gps, 7))))

\* C25, amended: when the GPS sub-IFD holds the four coordinate tags, a
\* timestamp of three values and a datestamp YYYY:MM:DD, the record carries
\* gpsDateTime, the UTC instant of that date and of that time of day cut to
\* whole seconds; without the four coordinate tags there is no gpsDateTime
C25_GpsInstant ==
    (pc = "formatted" /\ GpsHolds({7, 29}) /\ EntryOf(tiff.gps, 29) = GpsDateStamp) =>
        IF GpsHolds({1, 2, 3, 4})
        THEN /\ BothHave("gpsDateTime", StrV(Instant1030))
             /\ BothHave("gpsTimestamp", TimeV(<<19737, 37815000>>))
        ELSE BothLack("gpsDateTime") /\ BothLack("gpsTimestamp")

\* coordinates, 10:30:15.5 and 2024:01:15: the instant of 10:30:15
C25_Witness ==
    /\ pc = "formatted"
    /\ tiff.gps = <<GpsLatRefN, GpsLat, GpsLonRefE, GpsLon, GpsDateStamp, GpsTimeHalf>>
    /\ decoded.leMetadata["gpsDateTime"] = StrV(Instant1030)
    /\ decoded.beMetadata["gpsTimestamp"] = TimeV(<<19737, 37815000>>)

\* the altitude the input holds, as a number
AltitudeOf(e) == NumV(e.vals[1][1], e.vals[1][2])
AltitudeBelow(e) == NumV(-e.vals[1][1], e.vals[1][2])

\* C26: gpsAltitude is the decoded altitude (tag 6), negated exactly when
\* the reference byte (tag 5) is 1; a reference of 0 or none leaves it as it
\* is, and no other tag of the GPS sub-IFD changes its sign
C26_AltitudeSign ==
    (pc = "formatted" /\ GpsHolds({1, 2, 3, 4, 6})) =>
        IF GpsHolds({5}) /\ EntryOf(tiff.gps, 5).vals = <<1>>
        THEN BothHave("gpsAltitude", AltitudeBelow(EntryOf(tiff.gps, 6)))
        ELSE BothHave("gpsAltitude", AltitudeOf(EntryOf(tiff.gps, 6)))

\* 123.4 with the reference 1 is -123.4, with south and west coordinates
C26_Witness ==
    /\ pc = "formatted"
    /\ tiff.gps = <<GpsLatRef, GpsLat, GpsLonRef, GpsLon, GpsAltRef, GpsAlt, GpsTimeStamp,
                    GpsDateStamp>>
    /\ decoded.leMetadata["gpsAltitude"] = NumV(-617, 5)
    /\ decoded.beMetadata["gpsAltitude"] = NumV(-617, 5)

GpsDependentFields == {"gpsAltitude", "gpsTimestamp", "gpsDateTime"}

\* latitude and longitude come together, and the other GPS values only
\* with them
CoordinatesTogether(m) ==
    /\ Has(m, "gpsLatitude") <=> Has(m, "gpsLongitude")
    /\ \A name \in GpsDependentFields : Has(m, name) => Has(m, "gpsLatitude")

\* hasGpsData = true and no coordinate, altitude or GPS time
FlagOnly(m) ==
    /\ Has(m, "hasGpsData") /\ m["hasGpsData"] = BoolV(TRUE)
    /\ \A name \in GpsDependentFields \cup {"gpsLatitude", "gpsLongitude"} : ~Has(m, name)

\* a GPS sub-IFD was parsed and its map lacks one of the tags 1 to 4
LacksCoordinateTag(exifData) ==
    "gps" \in exifData.has /\ ~({1, 2, 3, 4} \subseteq DOMAIN exifData.gps)

\* C28 as stated: gpsLatitude is present exactly when gpsLongitude is,
\* gpsAltitude, gpsTimestamp and gpsDateTime only with both, and every GPS
\* sub-IFD that lacks one of the tags 1 to 4 gives hasGpsData = true and none
\* of these fields
C28_GpsFieldsTogetherAlways ==
    pc = "formatted" =>
        /\ CoordinatesTogether(decoded.leMetadata)
        /\ CoordinatesTogether(decoded.beMetadata)
        /\ LacksCoordinateTag(decoded.le) => FlagOnly(decoded.leMetadata)
        /\ LacksCoordinateTag(decoded.be) => FlagOnly(decoded.beMetadata)

\* C28, amended: the same, for a GPS sub-IFD whose map holds at least one
\* entry; one whose map is empty gives no GPS field at all, hasGpsData
\* included
C28_GpsFieldsTogether ==
    pc = "formatted" =>
        /\ CoordinatesTogether(decoded.leMetadata)
        /\ CoordinatesTogether(decoded.beMetadata)
        /\ (LacksCoordinateTag(decoded.le) /\ DOMAIN decoded.le.gps # {}) =>
              FlagOnly(decoded.leMetadata) /\ FlagOnly(decoded.beMetadata)
        /\ (LacksCoordinateTag(decoded.le) /\ DOMAIN decoded.le.gps = {}) =>
              /\ BothLack("hasGpsData")
              /\ \A name \in GpsDependentFields \cup {"gpsLatitude", "gpsLongitude"} :
                     BothLack(name)

\* latitude, altitude, timestamp and datestamp without a longitude: the flag
\* alone
C28_Witness ==
    /\ pc = "formatted"
    /\ tiff.gps = <<GpsLatRef, GpsLat, GpsAltRef, GpsAlt, GpsTimeStamp, GpsDateStamp>>
    /\ DOMAIN decoded.le.gps = {1, 2, 5, 6, 7, 29}
    /\ FlagOnly(decoded.leMetadata)
    /\ FlagOnly(decoded.beMetadata)

(***************************************************************************)
(* parseExifData step by step: one action for each kind of iteration of    *)
(* the loop of lines 87-140, for the header of parseTiffData, and for each *)
(* iteration of the loop of parseIfd.  The identifier test of line 122 is  *)
(* taken as the code makes it (ScanSegment), or as passed for a segment    *)
(* that carries the identifier (ScanExif).                                 *)
(* tiff: the scan offset and the IFD walk under way; pending: the sub-IFDs *)
(* parseTiffData has yet to walk after this one.                           *)
(***************************************************************************)
Walker(offset, tiffStart, littleEndian, which, ifdOffset, entryCount, pending) ==
    [offset |-> offset, tiffStart |-> tiffStart, le |-> littleEndian, which |-> which,
     ifdOffset |-> ifdOffset, entryCount |-> entryCount, i |-> 0, entries |-> <<>>,
     pending |-> pending, tz |-> 0]

Scanning(offset) == Walker(offset, 0, FALSE, "", 0, 0, <<>>)

SubIfd(which, at) == [which |-> which, at |-> at]

\* sub-IFD pointers followed from every IFD, the sub-IFDs included
FollowedFromAny(which, entries, tiffStart) ==
    (IF ExifIfdPointer \in DOMAIN entries
     THEN <<SubIfd("exif", PointerTarget(tiffStart, entries[ExifIfdPointer].value))>>
     ELSE <<>>)
    \o (IF GpsIfdPointer \in DOMAIN entries
        THEN <<SubIfd("gps", PointerTarget(tiffStart, entries[GpsIfdPointer].value))>>
        ELSE <<>>)

\* lines 197-205: the sub-IFDs parseTiffData walks, taken from the entries
\* of IFD0 alone
FollowedFrom(which, entries, tiffStart) ==
    IF which # "ifd0" THEN <<>>
    ELSE (IF ExifIfdPointer \in DOMAIN entries
          THEN <<SubIfd("exif", PointerTarget(tiffStart, entries[ExifIfdPointer].value))>>
          ELSE <<>>)
         \o (IF GpsIfdPointer \in DOMAIN entries
             THEN <<SubIfd("gps", PointerTarget(tiffStart, entries[GpsIfdPointer].value))>>
             ELSE <<>>)

\* the return of parseExifData, lines 80 and 146
Returning(r) ==
    /\ parsed' = Ran(r)
    /\ outcome' = outcome
    /\ pc' = "done"

\* a throw inside the try of line 83: the catch of lines 141-144
Failing(exifData) == Returning(Completed(ParseFailed(exifData)))

LoopCond == tiff.offset < Len(file.bytes) - 1
AtMarker == LoopCond /\ U8(file.bytes, tiff.offset) = MarkerPrefix
Marker == U8(file.bytes, tiff.offset + 1)
AtSegment == AtMarker /\ Marker \notin RST0..EOI
SegmentSize == U16(file.bytes, tiff.offset + 2, FALSE)
SizedSegment == AtSegment /\ InView(file.bytes, tiff.offset + 2, 2) /\ SegmentSize >= 2

\* lines 78-84
StartScan ==
    /\ pc = "soi"
    /\ IF StartsWithSOI(file.bytes)
       THEN pc' = "scan" /\ UNCHANGED <<parsed, outcome>>
       ELSE Returning(ScanFrom(file.bytes, NewExifData))
    /\ UNCHANGED <<file, tiff, decoded>>

\* line 87 false, or the break of line 97
ScanExit ==
    /\ pc = "scan"
    /\ ~LoopCond \/ (AtMarker /\ EndOfImage(Marker))
    /\ Returning(Completed(parsed.exifData))
    /\ UNCHANGED <<file, tiff, decoded>>

\* lines 88-91
ScanSkipByte ==
    /\ pc = "scan"
    /\ LoopCond /\ ~AtMarker
    /\ tiff' = [tiff EXCEPT !.offset = @ + 1]
    /\ UNCHANGED <<pc, file, parsed, outcome, decoded>>

\* lines 101-108
ScanStandalone ==
    /\ pc = "scan"
    /\ AtMarker /\ ~EndOfImage(Marker) /\ Marker \in RST0..EOI
    /\ tiff' = [tiff EXCEPT !.offset = @ + 2]
    /\ UNCHANGED <<pc, file, parsed, outcome, decoded>>

\* line 111 reading past the end of the view
ScanSizeThrown ==
    /\ pc = "scan"
    /\ AtSegment /\ ~InView(file.bytes, tiff.offset + 2, 2)
    /\ Failing(parsed.exifData)
    /\ UNCHANGED <<file, tiff, decoded>>

\* lines 113-116
ScanShort ==
    /\ pc = "scan"
    /\ AtSegment /\ InView(file.bytes, tiff.offset + 2, 2) /\ SegmentSize < 2
    /\ tiff' = [tiff EXCEPT !.offset = @ + 2]
    /\ UNCHANGED <<pc, file, parsed, outcome, decoded>>

\* lines 131-139 after the segment at the scan offset, r being what lines
\* 118-129 made of it
SegmentDone(r) ==
    IF r.thrown
    THEN Failing(r.exifData) /\ tiff' = tiff
    ELSE /\ parsed' = Ran(pushSegment(r, Marker, tiff.offset, SegmentSize))
         /\ tiff' = Scanning(tiff.offset + 2 + SegmentSize)
         /\ pc' = "scan"
         /\ outcome' = outcome

\* lines 118-139 as the code runs them
ScanSegment ==
    /\ pc = "scan"
    /\ SizedSegment
    /\ SegmentDone(scanSegment(file.bytes, tiff.offset, Marker, parsed.exifData))
    /\ UNCHANGED <<file, decoded>>

\* what lines 176-192 leave: thrown, or walk = FALSE for the return of line
\* 185, or IFD0 to be walked at ifdOffset
Opened(thrown, walk, exifData, littleEndian, ifdOffset) ==
    [thrown |-> thrown, walk |-> walk, exifData |-> exifData, le |-> littleEndian,
     ifdOffset |-> ifdOffset]

\* lines 181-192
OpenedBody(view, tiffStart, littleEndian, exifData) ==
    IF ~InView(view, tiffStart + 2, 2) THEN Opened(TRUE, FALSE, exifData, littleEndian, 0)
    ELSE IF U16(view, tiffStart + 2, littleEndian) # TiffMagic
    THEN Opened(FALSE, FALSE, exifData, littleEndian, 0)
    ELSE IF ~InView(view, tiffStart + 4, 4)
    THEN Opened(TRUE, FALSE, exifData, littleEndian, 0)
    ELSE Opened(FALSE, TRUE, [exifData EXCEPT !.has = @ \cup {"ifd0"}, !.ifd0 = <<>>],
                littleEndian, SatAdd(tiffStart, U32(view, tiffStart + 4, littleEndian)))

\* lines 176-179
OpenedOrder(view, tiffStart, littleEndian, exifData) ==
    OpenedBody(view, tiffStart, littleEndian,
               [exifData EXCEPT !.byteOrder =
                   IF littleEndian THEN "little-endian" ELSE "big-endian"])

TiffOpened(view, tiffStart, exifData) ==
    IF ~InView(view, tiffStart, 2) THEN Opened(TRUE, FALSE, exifData, FALSE, 0)
    ELSE OpenedOrder(view, tiffStart, U16(view, tiffStart, FALSE) = LittleEndianMark,
                     exifData)

\* lines 218-221: parseIfd entered for the IFD at
BeginWalk(exifData, which, at, tiffStart, littleEndian, pending) ==
    IF ~InView(file.bytes, at, 2)
    THEN Failing(exifData) /\ tiff' = tiff
    ELSE /\ parsed' = Ran(Completed(exifData))
         /\ tiff' = Walker(tiff.offset, tiffStart, littleEndian, which, at,
                           U16(file.bytes, at, littleEndian), pending)
         /\ pc' = "walk"
         /\ outcome' = outcome

\* parseTiffData called at line 127
Entered(o) ==
    IF o.thrown THEN Failing(o.exifData) /\ tiff' = tiff
    ELSE IF ~o.walk THEN SegmentDone(Completed(o.exifData))
    ELSE BeginWalk(o.exifData, "ifd0", o.ifdOffset, tiff.offset + 10, o.le, <<>>)

\* lines 119-127 for an APP1 segment that carries the identifier, the test
\* of line 122 passed
ScanExif ==
    /\ pc = "scan"
    /\ SizedSegment /\ Marker = APP1 /\ ExifIdAt(file.bytes, tiff.offset)
    /\ Entered(TiffOpened(file.bytes, tiff.offset + 10,
                          [parsed.exifData EXCEPT !.app1Reached = Append(@, tiff.offset),
                                                  !.exifFound = TRUE,
                                                  !.exifOffset = tiff.offset + 10,
                                                  !.tiffRuns = Append(@, tiff.offset + 10)]))
    /\ decoded' = [decoded EXCEPT !.assumed = TRUE]
    /\ file' = file

\* lines 224-242: one iteration
WalkEntry ==
    /\ pc = "walk"
    /\ tiff.i < tiff.entryCount
    /\ IF ~InView(file.bytes, tiff.ifdOffset + 2 + tiff.i * 12, 12)
       THEN Failing(parsed.exifData) /\ tiff' = tiff
       ELSE /\ tiff' = [tiff EXCEPT !.i = @ + 1,
                                    !.entries = parseEntry(file.bytes,
                                                           tiff.ifdOffset + 2 + tiff.i * 12,
                                                           tiff.tiffStart, tiff.le, @)]
            /\ UNCHANGED <<pc, parsed, outcome>>
    /\ UNCHANGED <<file, decoded>>

\* lines 194, 199 and 204: the map parseIfd returned is assigned
Assigned(exifData, which, entries) ==
    CASE which = "ifd0" -> [exifData EXCEPT !.ifd0 = entries]
      [] which = "exif" -> [exifData EXCEPT !.has = @ \cup {"exif"}, !.exif = entries]
      [] which = "gps" -> [exifData EXCEPT !.has = @ \cup {"gps"}, !.gps = entries]

\* lines 197-206: the next sub-IFD, or the return of parseTiffData
Continue(exifData, pending) ==
    IF pending = <<>> THEN SegmentDone(Completed(exifData))
    ELSE BeginWalk(exifData, Head(pending).which, Head(pending).at, tiff.tiffStart,
                   tiff.le, Tail(pending))

\* line 244 and what follows the call of parseIfd
WalkEnd ==
    /\ pc = "walk"
    /\ tiff.i >= tiff.entryCount
    /\ Continue(Assigned(parsed.exifData, tiff.which, tiff.entries),
                tiff.pending \o FollowedFrom(tiff.which, tiff.entries, tiff.tiffStart))
    /\ UNCHANGED <<file, decoded>>

\* TIFF blocks whose pointers lead back: IFD0 pointing to itself as Exif and
\* as GPS sub-IFD, and sub-IFDs holding pointers to IFD0 and to themselves
SelfPointing(littleEndian) ==
    EncodeTiff(littleEndian,
               <<MakeAcme4, LongEntry(ExifIfdPointer, 8), LongEntry(GpsIfdPointer, 8)>>,
               <<>>, <<>>)

Cyclic(littleEndian) ==
    EncodeTiff(littleEndian, <<MakeAcme4>>,
               <<IsoSpeed, LongEntry(ExifIfdPointer, 8), LongEntry(GpsIfdPointer, 8 + 2 + 12 * 3 + 4)>>,
               <<GpsLatRef, LongEntry(GpsIfdPointer, 8), LongEntry(ExifIfdPointer, 8 + 2 + 12 * 3 + 4)>>)

\* an IFD0 announcing 65535 entries in a block that holds one
ManyEntries ==
    <<73, 73, 42, 0, 8, 0, 0, 0, 255, 255>>
    \o <<15, 1, 2, 0, 4, 0, 0, 0, 65, 99, 109, 101>>

\* APP1/Exif segments with all three IFDs, with IFD0 and the Exif sub-IFD,
\* and with IFD0 alone
SegmentFull ==
    App1Exif(EncodeTiff(TRUE, <<MakeAcme5, ModelX1>>, <<DateOriginal>>,
                        <<GpsLatRef, GpsLat, GpsLonRef, GpsLon>>))
SegmentExif == App1Exif(EncodeTiff(FALSE, <<MakeAcme4>>, <<DateDigitized, IsoSpeed>>, <<>>))
SegmentBare == App1Exif(EncodeTiff(FALSE, <<ModelLong>>, <<>>, <<>>))

ExifSegments == {SegmentFull, SegmentExif, SegmentBare}

\* two APP1/Exif segments before the end-of-image marker
TwoSegmentBuffers ==
    {Jpeg(a \o b \o Eoi) : a \in ExifSegments, b \in ExifSegments}
    \cup {Jpeg(a \o App0 \o b) : a \in ExifSegments, b \in ExifSegments}

\* the buffers with pointers that lead back, with an entry count beyond the
\* buffer, with short length fields, stray bytes and cut segments
LoopingBuffers ==
    ShortLengthBuffers
    \cup {Jpeg(App1Exif(SelfPointing(le)) \o Eoi) : le \in BOOLEAN}
    \cup {Jpeg(App0 \o App1Exif(Cyclic(le))) : le \in BOOLEAN}
    \cup {Jpeg(App1Exif(ManyEntries) \o Eoi), Jpeg(SegmentFull \o SegmentBare \o Eoi),
          Jpeg(<<0, MarkerPrefix, RST0, MarkerPrefix, MarkerPrefix>> \o SegmentExif),
          Jpeg(Eoi \o SegmentBare), Jpeg(App0 \o Xmp), <<137, 80, 78, 71>>, <<>>}
    \cup {SubSeq(Jpeg(SegmentExif), 1, n) : n \in {1, 3, 5, 11, 13, 17, 21, 30, 40}}

StepBuffers ==
    LoopingBuffers \cup TwoSegmentBuffers \cup EoiThenExif \cup RoundTripBuffers
    \cup {Jpeg(App0 \o Xmp \o SegmentFull \o Eoi), Jpeg(ExifLike \o Eoi), <<MarkerPrefix>>}
    \cup Prefixes(Jpeg(App0 \o App1Exif(AcmeTiff(TRUE)) \o Eoi))
    \cup Prefixes(Jpeg(App1Exif(EncodeTiff(FALSE, <<MakeAcme5>>, <<IsoSpeed>>, <<GpsLatRef>>))))

InitSteps ==
    /\ pc = "soi"
    /\ file \in [type : {<<>>}, bytes : StepBuffers, lastModified : {<<0, 0>>}]
    /\ parsed = NotParsed
    /\ outcome = NoOutcome
    /\ tiff = Scanning(2)
    /\ decoded = [assumed |-> FALSE]

NextSteps ==
    \/ StartScan \/ ScanExit \/ ScanSkipByte \/ ScanStandalone \/ ScanSizeThrown
    \/ ScanShort \/ ScanSegment \/ ScanExif \/ WalkEntry \/ WalkEnd

SpecSteps == InitSteps /\ [][NextSteps]_vars

InitStepsFair ==
    /\ pc = "soi"
    /\ file \in [type : {<<>>}, bytes : LoopingBuffers, lastModified : {<<0, 0>>}]
    /\ parsed = NotParsed
    /\ outcome = NoOutcome
    /\ tiff = Scanning(2)
    /\ decoded = [assumed |-> FALSE]

\* the same steps, the loops being run on: no step that can be taken is put
\* off for ever
SpecStepsFair == InitStepsFair /\ [][NextSteps]_vars /\ WF_vars(NextSteps)

(***************************************************************************)
(* Properties of the steps                                                 *)
(***************************************************************************)
\* a run in which no identifier test was taken as passed ends with the
\* object parseExifData returns
StepsAgree ==
    (pc = "done" /\ ~decoded.assumed) => parsed = Ran(parseExifData(file.bytes))

\* the bytes an iteration of the scan may advance by: 1, 2, or 2 + the
\* length field of the segment at the offset
Advances ==
    {1, 2} \cup (IF InView(file.bytes, tiff.offset + 2, 2) THEN {2 + SegmentSize} ELSE {})

\* an iteration of the scan that is followed by another moves the offset
\* forward by one of these; a step of an IFD walk leaves it where it is
ScanAdvances ==
    /\ (pc = "scan" /\ pc' = "scan") => tiff'.offset - tiff.offset \in Advances
    /\ (pc = "walk" /\ pc' = "scan") => tiff'.offset - tiff.offset \in Advances
    /\ pc' = "walk" => tiff'.offset = tiff.offset
    /\ tiff'.offset >= tiff.offset

\* a walk is at most at its entry count, a 16-bit number
WalkBounded ==
    pc = "walk" => tiff.i <= tiff.entryCount /\ tiff.entryCount <= 65535

\* the end of the walk of a sub-IFD adds no IFD to those yet to be walked,
\* and the sub-IFDs walked are those IFD0 points to, at most two
PointersFromIfd0 ==
    /\ (pc = "walk" /\ tiff.which # "ifd0") => Len(tiff'.pending) <= Len(tiff.pending)
    /\ (pc = "walk" /\ pc' = "walk" /\ tiff'.which = "ifd0") => tiff' = [tiff EXCEPT !.i = @ + 1, !.entries = tiff'.entries]
    /\ Len(tiff'.pending) <= 1

\* C27: extraction ends for every buffer: every iteration of the segment
\* scan moves the offset forward (by 1, by 2, or by 2 + the segment length),
\* every IFD walk makes at most its 16-bit entry count of iterations, and
\* sub-IFD pointers are followed from IFD0 alone, so that pointers leading
\* back to an IFD already walked do not keep the parse going
C27_Terminates ==
    /\ [][ScanAdvances /\ PointersFromIfd0]_vars
    /\ [](WalkBounded)
    /\ <>(pc = "done")

\* the block whose IFD0 is its own Exif and GPS sub-IFD was walked three
\* times and the call returned
C27_Witness ==
    /\ pc = "done"
    /\ \E le \in BOOLEAN : file.bytes = Jpeg(App1Exif(SelfPointing(le)) \o Eoi)
    /\ decoded.assumed
    /\ parsed.exifData.has = {"ifd0", "exif", "gps"}
    /\ parsed.exifData.exif = parsed.exifData.ifd0
    /\ parsed.exifData.gps = parsed.exifData.ifd0
    /\ ~parsed.exifData.parseError

\* the maps parseTiffData makes of the APP1/Exif segment seg on its own
MapsOf(seg) == parseTiffData(Jpeg(seg), FirstTiffStart, FoundAtFirst).exifData

\* the three maps of the object are those of the segment seg
MapsFrom(exifData, seg) ==
    /\ exifData.ifd0 = MapsOf(seg).ifd0
    /\ exifData.exif = MapsOf(seg).exif
    /\ exifData.gps = MapsOf(seg).gps

SameTagShort == Raw(AsciiInline4.id, 3, 1, -1, <<400>>, TRUE, IntV(400))
SameTagPastEnd == Raw(AsciiInline4.id, 4, 2, PastEnd, <<>>, FALSE, UndefV)
SameTagFloat == Raw(AsciiInline4.id, 11, 1, AsciiAt, <<>>, TRUE, UndefV)
OtherTagLong == Raw(AsciiOffset5.id, 4, 1, -1, <<7>>, TRUE, IntV(7))

RepeatedEntries ==
    {AsciiInline4, SameTagShort, SameTagPastEnd, SameTagFloat, AsciiOffset5, OtherTagLong}

RepeatedInputs ==
    {IfdInput(es, le, DefaultPair) :
        es \in DistinctSeqs(RepeatedEntries, MaxEntries), le \in BOOLEAN}

InitRepeated ==
    /\ pc = "ifd"
    /\ file = NoFile
    /\ parsed = NotParsed
    /\ outcome = NoOutcome
    /\ tiff \in RepeatedInputs
    /\ decoded = NoDecoded

SpecRepeated == InitRepeated /\ [][NextIfd]_vars

\* the places of the directory whose entry has tag id and is read without
\* an error
ReadPlaces(entries, id) ==
    {i \in 1..Len(entries) : entries[i].id = id /\ entries[i].valid}

Largest(S) == CHOOSE n \in S : \A m \in S : m <= n

\* C30: the IFD map has no more entries than the directory's entry count,
\* and a tag id that comes more than once has one entry in the map: that of
\* the last place of the directory where the tag is read without an error
C30_LastOfTagKept ==
    pc = "walked" =>
        /\ Cardinality(DOMAIN decoded.entries) <= Len(tiff.entries)
        /\ \A i \in 1..Len(tiff.entries) :
              IF ReadPlaces(tiff.entries, tiff.entries[i].id) = {}
              THEN tiff.entries[i].id \notin DOMAIN decoded.entries
              ELSE Decoded(tiff.entries[Largest(ReadPlaces(tiff.entries, tiff.entries[i].id))],
                           tiff.entries[Largest(ReadPlaces(tiff.entries,
                                                           tiff.entries[i].id))].expect)

\* tag 271 three times: the SHORT after the ASCII is kept, the entry after it
\* that cannot be read changes nothing
C30_Witness ==
    /\ pc = "walked"
    /\ tiff.entries = <<AsciiInline4, SameTagShort, SameTagPastEnd>>
    /\ DOMAIN decoded.entries = {AsciiInline4.id}
    /\ Decoded(SameTagShort, IntV(400))

=============================================================================
